---- MODULE Spec2Model ----
(***************************************************************************)
(* Storefront cart, cart validation, checkout and webhook handling of the  *)
(* excalibur-jerky repository, as a state machine.                         *)
(*                                                                         *)
(* A value that may be absent (TypeScript `number | null | undefined`) is  *)
(* a tuple: None = <<>> is null/undefined, Some(n) = <<n>> is the number.  *)
(* The cart (a React array of CartItem) is a function from the cart item   *)
(* id to the item; no handler depends on the order of the array.  A cart   *)
(* item id is `${productId}-${priceId}`; a price belongs to one product,   *)
(* so the model uses the price id as the cart item id.                     *)
(***************************************************************************)
EXTENDS Integers, Sequences, FiniteSets, TLC

\* ------------------------------------------------------------------ bounds
\* Largest inventory total (in base units) the environment reports.
MaxPool == 3
\* Largest quantity passed to addItem / updateQuantity.
MaxQty == 2

\* ---------------------------------------------------------------- catalog
Products == {"p1"}

Prices == {"p1_4oz", "p1_8oz", "p1_1lb"}

\* The prices on the shelf in the small-bound specifications.
Shelf == {"p1_4oz", "p1_8oz"}

\* The product a price belongs to (Stripe price.product).
PriceProduct(v) == "p1"

\* prices[].baseUnits of the page's product record: 4oz = 1, 8oz = 2, 1 lb = 4.
PriceBaseUnits(v) ==
  CASE v = "p1_4oz" -> 1
    [] v = "p1_8oz" -> 2
    [] v = "p1_1lb" -> 4
    [] OTHER -> 1

PricesOf(p) == {v \in Prices : PriceProduct(v) = p}

None == <<>>

Some(n) == <<n>>

\* The inventory totals a page can report: null (no limit known) or a count.
Totals == {None} \cup {Some(n) : n \in 0..MaxPool}

\* The quantities the small-bound specifications pass to the Cart Store.
Quantities == 1..MaxQty

RECURSIVE SumOver(_, _)
\* Array.reduce((sum, i) => sum + f[i], 0) over the lines S.
SumOver(f, S) ==
  IF S = {} THEN 0
  ELSE LET x == CHOOSE y \in S : TRUE IN f[x] + SumOver(f, S \ {x})

\* base units used by the lines of product p: filter(productId).reduce(baseUnits * quantity)
UsedByProduct(its, p) ==
  SumOver([i \in DOMAIN its |-> its[i].baseUnits * its[i].quantity],
          {i \in DOMAIN its : its[i].productId = p})

\* base units used by the lines of product p other than line id
UsedByOthers(its, p, id) ==
  SumOver([i \in DOMAIN its |-> its[i].baseUnits * its[i].quantity],
          {i \in DOMAIN its : its[i].productId = p /\ i # id})

Min(a, b) == IF a < b THEN a ELSE b

Max(a, b) == IF a > b THEN a ELSE b

\* ------------------------------------------------------------- Cart Store
\* A recalculation that charges a line with its own usage as well as its
\* siblings' (deliberately wrong: C4 does not hold of it).
recalculateMaxQuantitiesOwnUsage(its, availableInventory) ==
  [i \in DOMAIN its |->
     IF its[i].productId \notin DOMAIN availableInventory THEN its[i]
     ELSE LET used == UsedByProduct(its, its[i].productId)
              maxForThisItem ==
                (availableInventory[its[i].productId] - used) \div its[i].baseUnits
          IN [its[i] EXCEPT !.maxQuantity =
                Some(IF maxForThisItem > 0 THEN maxForThisItem ELSE 0)]]

\* recalculateMaxQuantities(items, availableInventory): the cached maximum of
\* every line whose product has an entry in availableInventory.
recalculateMaxQuantities(its, availableInventory) ==
  [i \in DOMAIN its |->
    IF its[i].productId \notin DOMAIN availableInventory
    THEN its[i]
    ELSE LET usedByOthers == UsedByOthers(its, its[i].productId, i)
             remainingBaseUnits == availableInventory[its[i].productId] - usedByOthers
             maxForThisItem == remainingBaseUnits \div its[i].baseUnits
         IN [its[i] EXCEPT !.maxQuantity =
               Some(IF maxForThisItem > 0 THEN maxForThisItem ELSE 0)]]

\* The recalculation addItem/removeItem/updateQuantity end with: only when the
\* product has a recorded total, and then for that product alone.
RecalculateFor(its, inv, p) ==
  IF p \in DOMAIN inv
  THEN recalculateMaxQuantities(its, [q \in {p} |-> inv[p]])
  ELSE its

\* addItem(item): the cart and the recorded totals after the call.
addItem(its, inv, item) ==
  LET inv1 == IF item.totalInventory # None /\ item.productId \notin DOMAIN inv
              THEN [q \in DOMAIN inv \cup {item.productId} |->
                      IF q = item.productId THEN item.totalInventory[1] ELSE inv[q]]
              ELSE inv
      known == item.productId \in DOMAIN inv1
      totalUsedByProduct == UsedByProduct(its, item.productId)
      \* Math.floor(remainingBaseUnits / item.baseUnits), when the total is known
      canAdd == (inv1[item.productId] - totalUsedByProduct) \div item.baseUnits
      updatedItems ==
        IF item.id \in DOMAIN its
        THEN LET existing == its[item.id]
                 newQuantity == IF known
                                THEN Min(existing.quantity + item.quantity,
                                         existing.quantity + canAdd)
                                ELSE existing.quantity + item.quantity
             IN [its EXCEPT ![item.id].quantity = newQuantity]
        ELSE LET actualQuantity == IF known THEN Min(item.quantity, canAdd)
                                   ELSE item.quantity
             IN [i \in DOMAIN its \cup {item.id} |->
                   IF i = item.id
                   THEN [productId |-> item.productId, priceId |-> item.priceId,
                         quantity |-> actualQuantity, baseUnits |-> item.baseUnits,
                         maxQuantity |-> item.maxQuantity]
                   ELSE its[i]]
  IN [items |-> RecalculateFor(updatedItems, inv1, item.productId),
      productInventory |-> inv1]

\* removeItem(id)
removeItem(its, inv, id) ==
  LET updatedItems == [i \in DOMAIN its \ {id} |-> its[i]]
  IN IF id \in DOMAIN its
     THEN RecalculateFor(updatedItems, inv, its[id].productId)
     ELSE updatedItems

\* updateQuantity(id, quantity)
updateQuantity(its, inv, id, quantity) ==
  IF quantity <= 0 THEN removeItem(its, inv, id)
  ELSE IF id \notin DOMAIN its THEN its
  ELSE LET item == its[id]
           usedByOthers == UsedByOthers(its, item.productId, id)
           known == item.productId \in DOMAIN inv
           maxForThisItem == (inv[item.productId] - usedByOthers) \div item.baseUnits
           actualQuantity == IF known THEN Min(quantity, maxForThisItem) ELSE quantity
           updatedItems == [its EXCEPT ![id].quantity = actualQuantity]
       IN RecalculateFor(updatedItems, inv, item.productId)

\* ---------------------------------------------------------- Cart Validator
\* The products arrays validateCart can receive, over the given prices and
\* totals: a function from the product id (stripeProductId) to the product's
\* price ids and inventory.  A cart line's productId is a Stripe product id and
\* never a Sanity _id, so the lookup
\* productMapBySanityId.get(id) || productMapByStripeId.get(id) is the second.
ProductRecords(p, prices, totals) ==
  [prices : SUBSET (PricesOf(p) \cap prices),
   inventory : [quantity : totals, available : BOOLEAN]]

Snapshots(prices, totals) ==
  UNION {{f \in [D -> UNION {ProductRecords(p, prices, totals) : p \in D}] :
            \A p \in D : f[p] \in ProductRecords(p, prices, totals)} :
         D \in SUBSET Products}

\* A first pass that does not look at the product's price list (deliberately
\* wrong: C7 does not hold of it).
FilterOutcomeNoPriceCheck(line, products) ==
  IF line.productId \notin DOMAIN products THEN "unavailable"
  ELSE IF ~products[line.productId].inventory.available THEN "unavailable"
  ELSE "kept"

\* first pass of validateCart: where the filter drops the line ("unavailable":
\* the product is not in the array or not available; "priceMissing": the
\* line's price is not among the product's prices), or "kept"
FilterOutcome(line, products) ==
  IF line.productId \notin DOMAIN products THEN "unavailable"
  ELSE IF ~products[line.productId].inventory.available THEN "unavailable"
  ELSE IF line.priceId \notin products[line.productId].prices THEN "priceMissing"
  ELSE "kept"

\* A second pass that ignores the sibling lines (deliberately wrong: C6 does
\* not hold of it).
ValidatedMaxQtyAlone(validatedItems, i, availableBaseUnits) ==
  Max(0, availableBaseUnits) \div validatedItems[i].baseUnits

\* maxQty of the second pass, for a line that passed the first and whose
\* product has a numeric inventory quantity
ValidatedMaxQty(validatedItems, i, availableBaseUnits) ==
  LET baseUnitsUsedByOthers ==
        UsedByOthers(validatedItems, validatedItems[i].productId, i)
      remainingBaseUnits == Max(0, availableBaseUnits - baseUnitsUsedByOthers)
  IN remainingBaseUnits \div validatedItems[i].baseUnits

\* validateCart(products): the cart after the call, the lines pushed to
\* removedItems (with the place that pushed them) and the records pushed to
\* adjustedItems.
validateCart(its, products) ==
  LET validatedIds == {i \in DOMAIN its : FilterOutcome(its[i], products) = "kept"}
      validatedItems == [i \in validatedIds |-> its[i]]
      qtyOf(i) == products[its[i].productId].inventory.quantity
      maxQty(i) == ValidatedMaxQty(validatedItems, i, qtyOf(i)[1])
      exceeds(i) == qtyOf(i) # None /\ its[i].quantity > maxQty(i)
      dropped == {i \in validatedIds : exceeds(i) /\ maxQty(i) = 0}
      reduced == {i \in validatedIds : exceeds(i) /\ maxQty(i) # 0}
  IN [items |->
        [i \in validatedIds \ dropped |->
           IF qtyOf(i) = None THEN [its[i] EXCEPT !.maxQuantity = None]
           ELSE IF i \in reduced
                THEN [its[i] EXCEPT !.quantity = maxQty(i),
                                    !.maxQuantity = Some(maxQty(i))]
                ELSE [its[i] EXCEPT !.maxQuantity = Some(maxQty(i))]],
      removedItems |->
        {[id |-> i, at |-> FilterOutcome(its[i], products)] :
           i \in DOMAIN its \ validatedIds}
        \cup {[id |-> i, at |-> "noStock"] : i \in dropped},
      adjustedItems |->
        {[id |-> i, from |-> its[i].quantity, to |-> maxQty(i)] : i \in reduced}]

\* ------------------------------------------------------ callers of addItem
\* ProductAddToCart.handleAddToCart: the item built for price v of a page whose
\* product.inventory.quantity is total, with the cart its on screen.
ProductAddToCartItem(its, v, total, quantity) ==
  LET p == PriceProduct(v)
      remainingBaseUnits == Max(0, total[1] - UsedByOthers(its, p, v))
  IN [id |-> v, productId |-> p, priceId |-> v, quantity |-> quantity,
      baseUnits |-> PriceBaseUnits(v),
      maxQuantity |-> IF total = None THEN None
                      ELSE Some(remainingBaseUnits \div PriceBaseUnits(v)),
      totalInventory |-> total]

\* ProductCard.handleAddToCart: the same item without totalInventory, its
\* maxQuantity counted against every line of the product.
ProductCardItem(its, v, total, quantity) ==
  LET p == PriceProduct(v)
      remainingBaseUnits == Max(0, total[1] - UsedByProduct(its, p))
  IN [id |-> v, productId |-> p, priceId |-> v, quantity |-> quantity,
      baseUnits |-> PriceBaseUnits(v),
      maxQuantity |-> IF total = None THEN None
                      ELSE Some(remainingBaseUnits \div PriceBaseUnits(v)),
      totalInventory |-> None]

Callers == {"ProductAddToCart", "ProductCard"}

CartItemFrom(caller, its, v, total, quantity) ==
  IF caller = "ProductAddToCart"
  THEN ProductAddToCartItem(its, v, total, quantity)
  ELSE ProductCardItem(its, v, total, quantity)

\* ------------------------------------------------------- vendor and server
\* getStripeProducts: inventory of a product from its stock metadata (missing:
\* quantity null and not available), its prices the active ones.
getStripeProducts(stk) ==
  [p \in Products |->
     [prices |-> PricesOf(p) \cap Shelf,
      inventory |-> IF stk[p] = None
                    THEN [quantity |-> None, available |-> FALSE]
                    ELSE [quantity |-> stk[p], available |-> stk[p][1] > 0]]]

\* A decrement that counts packages, not base units (deliberately wrong: C9
\* does not hold of it).
decrementInventoryPackages(stk, v, quantity) ==
  LET currentQuantity == IF stk # None THEN stk[1] ELSE 0
      newQuantity == Max(0, currentQuantity - quantity)
  IN Some(newQuantity)

\* updateStripeInventory after decrementInventory's arithmetic: the stock
\* metadata after `quantity` packages of price v were bought (missing stock
\* counts as 0).
decrementInventory(stk, v, quantity) ==
  LET baseUnits == PriceBaseUnits(v)
      currentQuantity == IF stk # None THEN stk[1] ELSE 0
      decrementBy == quantity * baseUnits
      newQuantity == Max(0, currentQuantity - decrementBy)
  IN Some(newQuantity)

\* The for loop of handleCheckoutSessionCompleted over the session's line
\* items (one per price): each line's ensurePriceMetadata + decrementInventory
\* sits in its own try/catch, so a line whose vendor call throws is skipped.
RECURSIVE DecrementEach(_, _, _, _)
DecrementEach(stk, lineItems, todo, failing) ==
  IF todo = {} THEN stk
  ELSE LET v == CHOOSE x \in todo : TRUE
           p == PriceProduct(v)
           after == IF v \in failing THEN stk
                    ELSE [stk EXCEPT ![p] = decrementInventory(stk[p], v, lineItems[v])]
       IN DecrementEach(after, lineItems, todo \ {v}, failing)

\* handleCheckoutSessionCompleted: sessions.retrieve is awaited outside any
\* try/catch; the decrements and the e-mails are inside their own.
handleCheckoutSessionCompleted(stk, event) ==
  IF event.retrieveFails
  THEN [threw |-> TRUE, stock |-> stk]
  ELSE [threw |-> FALSE,
        stock |-> DecrementEach(stk, event.lineItems, DOMAIN event.lineItems,
                                event.failing)]

\* ensureStockMetadata: missing stock metadata is written as "0".
ensureStockMetadata(stk) == IF stk = None THEN Some(0) ELSE stk

\* handleProductCreated / handleProductUpdated: everything inside one
\* try/catch; the stock metadata is repaired unless the first vendor call threw.
handleProductUpserted(stk, event) ==
  IF event.retrieveFails THEN stk
  ELSE [p \in Products |-> ensureStockMetadata(stk[p])]

\* ------------------------------------------------------------ CMS records
Names == {"X", "Y"}

\* The product as the vendor holds it: whether it was deleted, whether it is
\* active, its name, whether it has a default price, and that price's unit
\* amount (in cents).
VendorProducts ==
  [deleted : BOOLEAN, active : BOOLEAN, name : Names, hasDefaultPrice : BOOLEAN,
   amount : {500}]

\* The price a product's default_price names
DefaultPriceOf(p) == "p1_4oz"

\* stripe.products.retrieve(id, {expand: ["default_price"]}) when expand, else
\* stripe.products.retrieve(id): default_price is then the price's id only.
StripeProduct(p, v, expand) ==
  [id |-> p, name |-> v.name, active |-> v.active,
   default_price |-> IF ~v.hasDefaultPrice THEN "none"
                     ELSE IF expand THEN "expanded" ELSE "id",
   unit_amount |-> v.amount]

\* The deterministic _id of a record created by the sync
DocumentId(p) == "stripe-product-" \o p

NoCms == [d \in {} |-> None]

\* *[_type == "products" && stripeProductId == $stripeProductId]
ExistingProducts(docs, p) == {d \in DOMAIN docs : docs[d].stripeProductId = p}

\* ...[0] of that query: the first record, none when there is none
ExistingProduct(docs, p) ==
  IF ExistingProducts(docs, p) = {} THEN None
  ELSE Some(CHOOSE d \in ExistingProducts(docs, p) : TRUE)

\* unitAmount of syncStripeProductToSanity: the default price's unit_amount
\* / 100, and 0 when default_price is an id only
unitAmount(product) ==
  IF product.default_price = "expanded" THEN product.unit_amount \div 100 ELSE 0

\* A patch that also resets the featured flag (deliberately wrong: C16 does not
\* hold of it).
SyncWriteResetFeatured(docs, existing, product) ==
  IF existing # None
  THEN IF existing[1] \notin DOMAIN docs
       THEN [threw |-> TRUE, cms |-> docs]
       ELSE [threw |-> FALSE,
             cms |-> [docs EXCEPT ![existing[1]] =
                        [@ EXCEPT !.stripePriceId = DefaultPriceOf(product.id),
                                  !.name = product.name,
                                  !.price = unitAmount(product),
                                  !.isFeatured = FALSE]]]
  ELSE LET documentId == DocumentId(product.id)
       IN [threw |-> FALSE,
           cms |-> IF documentId \in DOMAIN docs THEN docs
                   ELSE [d \in DOMAIN docs \cup {documentId} |->
                           IF d = documentId
                           THEN [stripeProductId |-> product.id,
                                 stripePriceId |-> DefaultPriceOf(product.id),
                                 name |-> product.name,
                                 price |-> unitAmount(product),
                                 description |-> None,
                                 isFeatured |-> FALSE]
                           ELSE docs[d]]]

\* A create under an _id of its own per payload (deliberately wrong: C14 does
\* not hold of it).
SyncWriteOwnId(docs, existing, product) ==
  IF existing # None
  THEN IF existing[1] \notin DOMAIN docs
       THEN [threw |-> TRUE, cms |-> docs]
       ELSE [threw |-> FALSE,
             cms |-> [docs EXCEPT ![existing[1]] =
                        [@ EXCEPT !.stripePriceId = DefaultPriceOf(product.id),
                                  !.name = product.name,
                                  !.price = unitAmount(product)]]]
  ELSE LET documentId == DocumentId(product.id) \o product.name \o product.default_price
       IN [threw |-> FALSE,
           cms |-> IF documentId \in DOMAIN docs THEN docs
                   ELSE [d \in DOMAIN docs \cup {documentId} |->
                           IF d = documentId
                           THEN [stripeProductId |-> product.id,
                                 stripePriceId |-> DefaultPriceOf(product.id),
                                 name |-> product.name,
                                 price |-> unitAmount(product),
                                 description |-> None,
                                 isFeatured |-> FALSE]
                           ELSE docs[d]]]

\* The write of syncStripeProductToSanity for the record the fetch found
\* (patch(existing._id).set(updateData).commit(), which fails when the record
\* is gone) or, when it found none, createIfNotExists under the deterministic
\* _id.
SyncWrite(docs, existing, product) ==
  IF existing # None
  THEN IF existing[1] \notin DOMAIN docs
       THEN [threw |-> TRUE, cms |-> docs]
       ELSE [threw |-> FALSE,
             cms |-> [docs EXCEPT ![existing[1]] =
                        [@ EXCEPT !.stripePriceId = DefaultPriceOf(product.id),
                                  !.name = product.name,
                                  !.price = unitAmount(product)]]]
  ELSE LET documentId == DocumentId(product.id)
       IN [threw |-> FALSE,
           cms |-> IF documentId \in DOMAIN docs THEN docs
                   ELSE [d \in DOMAIN docs \cup {documentId} |->
                           IF d = documentId
                           THEN [stripeProductId |-> product.id,
                                 stripePriceId |-> DefaultPriceOf(product.id),
                                 name |-> product.name,
                                 price |-> unitAmount(product),
                                 description |-> None,
                                 isFeatured |-> FALSE]
                           ELSE docs[d]]]

\* syncStripeProductToSanity(stripeProduct), run without interruption
syncStripeProductToSanity(docs, product) ==
  IF product.default_price = "none" THEN [threw |-> FALSE, cms |-> docs]
  ELSE SyncWrite(docs, ExistingProduct(docs, product.id), product)

\* A removal that archives: the record is kept (deliberately wrong: C17 does
\* not hold of it).
RemoveWriteArchive(docs, existing) ==
  docs

\* The delete of removeStripeProductFromSanity for the record its lookup found
RemoveWrite(docs, existing) ==
  IF existing # None
  THEN [d \in DOMAIN docs \ {existing[1]} |-> docs[d]]
  ELSE docs

\* removeStripeProductFromSanity(stripeProductId), run without interruption
removeStripeProductFromSanity(docs, p) ==
  RemoveWrite(docs, ExistingProduct(docs, p))

\* ------------------------------------------------- base-unit multipliers
\* Strings whose text matters are sequences of characters.
Digits == <<"0", "1", "2", "3", "4", "5", "6", "7", "8", "9">>

IsDigit(c) == \E d \in 1..Len(Digits) : Digits[d] = c

DigitValue(c) == (CHOOSE d \in 1..Len(Digits) : Digits[d] = c) - 1

\* String.prototype.toLowerCase, on the letters the nicknames use
LowerChar(c) ==
  CASE c = "B" -> "b" [] c = "L" -> "l" [] c = "O" -> "o"
    [] c = "P" -> "p" [] c = "Z" -> "z" [] OTHER -> c

toLowerCase(str) == [i \in 1..Len(str) |-> LowerChar(str[i])]

\* String.prototype.trim
RECURSIVE trimStart(_)
trimStart(str) ==
  IF str # <<>> /\ Head(str) = " " THEN trimStart(Tail(str)) ELSE str

RECURSIVE trimEnd(_)
trimEnd(str) ==
  IF str # <<>> /\ str[Len(str)] = " "
  THEN trimEnd(SubSeq(str, 1, Len(str) - 1)) ELSE str

trim(str) == trimEnd(trimStart(str))

\* String.prototype.includes
includes(str, searchString) ==
  \E i \in 0..(Len(str) - Len(searchString)) :
    SubSeq(str, i + 1, i + Len(searchString)) = searchString

\* Number.parseInt(str, 10) of a string without sign: the value of its leading
\* digits, NaN (none) when it has none
RECURSIVE LeadingDigits(_, _)
LeadingDigits(str, value) ==
  IF str = <<>> \/ ~IsDigit(Head(str)) THEN value
  ELSE LeadingDigits(Tail(str), 10 * value + DigitValue(Head(str)))

parseInt(str) ==
  IF trimStart(str) = <<>> \/ ~IsDigit(Head(trimStart(str))) THEN None
  ELSE Some(LeadingDigits(trimStart(str), 0))

\* Number.prototype.toString of 0..9
toString(n) == <<Digits[n + 1]>>

\* The nicknames of the prices; a price may have none.
Nicknames ==
  {<<"4", "o", "z">>, <<"8", "o", "z">>, <<" ", "8", " ", "O", "Z", " ">>,
   <<"1", "2", "o", "z">>, <<"1", " ", "l", "b">>, <<"1", "L", "B">>,
   <<"P", "a", "r", "t", "y", " ", "P", "a", "c", "k">>}

\* The values of the base_units metadata; a price may have none.
MetadataValues ==
  {<<"3">>, <<"1">>, <<"0">>, <<"a", "b", "c">>, <<"2", "x">>, <<>>}

\* An inference that does not know the pound (deliberately wrong: C25 does not
\* hold of it).
InferBaseUnitsNoPound(nickname) ==
  IF nickname = None THEN 1
  ELSE LET lowerNickname == trim(toLowerCase(nickname[1]))
       IN IF includes(lowerNickname, <<"1", "2", "o", "z">>)
             \/ includes(lowerNickname, <<"1", "2", " ", "o", "z">>) THEN 3
          ELSE IF includes(lowerNickname, <<"8", "o", "z">>)
                  \/ includes(lowerNickname, <<"8", " ", "o", "z">>) THEN 2
          ELSE 1

\* The inference from the nickname, the same chain in extractBaseUnits (both
\* catalog reads), in the Sync Handler and in ensurePriceMetadata
InferBaseUnits(nickname) ==
  IF nickname = None THEN 1
  ELSE LET lowerNickname == trim(toLowerCase(nickname[1]))
       IN IF includes(lowerNickname, <<"1", " ", "l", "b">>)
             \/ includes(lowerNickname, <<"1", "l", "b">>) THEN 4
          ELSE IF includes(lowerNickname, <<"1", "2", "o", "z">>)
                  \/ includes(lowerNickname, <<"1", "2", " ", "o", "z">>) THEN 3
          ELSE IF includes(lowerNickname, <<"8", "o", "z">>)
                  \/ includes(lowerNickname, <<"8", " ", "o", "z">>) THEN 2
          ELSE IF includes(lowerNickname, <<"4", "o", "z">>)
                  \/ includes(lowerNickname, <<"4", " ", "o", "z">>) THEN 1
          ELSE 1

\* extractBaseUnits of the catalog reads: the base_units metadata (Stripe) or
\* custom attribute (Square) when it is a non-empty string that parses to a
\* number > 0, else the inference
extractBaseUnits(base_units, nickname) ==
  IF /\ base_units # None /\ base_units[1] # <<>>
     /\ parseInt(base_units[1]) # None /\ parseInt(base_units[1])[1] > 0
  THEN parseInt(base_units[1])[1]
  ELSE InferBaseUnits(nickname)

\* extractBaseUnits of syncSquareProductToSanity: from the name only
extractBaseUnitsOfSync(base_units, name) == InferBaseUnits(name)

\* isValidBaseUnits of ensurePriceMetadata
isValidBaseUnits(base_units) ==
  /\ base_units # None /\ base_units[1] # <<>>
  /\ parseInt(base_units[1]) # None /\ parseInt(base_units[1])[1] >= 1

\* A repair that writes on every run (deliberately wrong: C26 does not hold of
\* it).
ensurePriceMetadataAlways(pr) ==
  [wrote |-> TRUE,
   price |-> [pr EXCEPT !.base_units =
                IF isValidBaseUnits(pr.base_units)
                THEN Some(toString(parseInt(pr.base_units[1])[1]))
                ELSE Some(toString(InferBaseUnits(pr.nickname)))]]

\* ensurePriceMetadata: whether stripe.prices.update was called, and the price
\* at the vendor afterwards
ensurePriceMetadata(pr) ==
  IF ~isValidBaseUnits(pr.base_units)
  THEN [wrote |-> TRUE,
        price |-> [pr EXCEPT !.base_units = Some(toString(InferBaseUnits(pr.nickname)))]]
  ELSE [wrote |-> FALSE, price |-> pr]

\* --------------------------------------------------------- Catalog Merge
\* What the vendor catalog read reports of a product: its live variant list
\* (price ids) and its inventory, in base units.
Inventories ==
  {[quantity |-> None, available |-> FALSE]}
  \cup {[quantity |-> Some(n), available |-> n > 0] : n \in 0..MaxPool}

VariantLists == (SUBSET Shelf) \ {{}}

VendorCatalogs ==
  {<<>>} \cup
  {<<[id |-> "p1", name |-> n, priceId |-> DefaultPriceOf("p1"), prices |-> vs,
      price |-> 5, inventory |-> i]>>
     : n \in Names, vs \in VariantLists, i \in Inventories}

\* What getAllProducts reports: the CMS records, with the variant list cached
\* in each.
SanityCatalogs ==
  {<<>>} \cup
  {<<[_id |-> DocumentId("p1"), stripeProductId |-> "p1",
      stripePriceId |-> DefaultPriceOf("p1"), prices |-> vs, name |-> n,
      price |-> 5, description |-> d, isFeatured |-> f]>>
     : n \in Names, vs \in VariantLists, d \in {None, Some("D")}, f \in BOOLEAN}

\* sanityProductMap.get(id): of the records with that vendor id the last one
\* (new Map keeps the last entry of a key), none when there is none
SanityProductOf(sanityProducts, id) ==
  LET matching == {i \in 1..Len(sanityProducts) :
                     sanityProducts[i].stripeProductId = id}
  IN IF matching = {} THEN None
     ELSE Some(sanityProducts[CHOOSE i \in matching : \A j \in matching : j <= i])

\* A merge that takes the name from the vendor (deliberately wrong: C18 does
\* not hold of it).
getMergedProductsVendorName(stripeProducts, sanityProducts) ==
  [i \in 1..Len(stripeProducts) |->
     LET stripeProduct == stripeProducts[i]
         found == SanityProductOf(sanityProducts, stripeProduct.id)
     IN IF found # None
        THEN [_id |-> found[1]._id,
              stripeProductId |-> stripeProduct.id,
              stripePriceId |-> stripeProduct.priceId,
              name |-> stripeProduct.name,
              price |-> found[1].price,
              description |-> found[1].description,
              isFeatured |-> found[1].isFeatured,
              inventory |-> stripeProduct.inventory,
              source |-> "sanity"]
        ELSE [_id |-> "stripe-" \o stripeProduct.id,
              stripeProductId |-> stripeProduct.id,
              stripePriceId |-> stripeProduct.priceId,
              name |-> stripeProduct.name,
              price |-> stripeProduct.price,
              description |-> None,
              isFeatured |-> FALSE,
              inventory |-> stripeProduct.inventory,
              source |-> "stripe"]]

\* getMergedProducts over Stripe: the one price of an entry is the vendor's
\* priceId.  (The lists here hold at most one product, so the final sort,
\* featured first and then by name, leaves them as they are.)
getMergedProducts(stripeProducts, sanityProducts) ==
  [i \in 1..Len(stripeProducts) |->
     LET stripeProduct == stripeProducts[i]
         found == SanityProductOf(sanityProducts, stripeProduct.id)
     IN IF found # None
        THEN [_id |-> found[1]._id,
              stripeProductId |-> stripeProduct.id,
              stripePriceId |-> stripeProduct.priceId,
              name |-> found[1].name,
              price |-> found[1].price,
              description |-> found[1].description,
              isFeatured |-> found[1].isFeatured,
              inventory |-> stripeProduct.inventory,
              source |-> "sanity"]
        ELSE [_id |-> "stripe-" \o stripeProduct.id,
              stripeProductId |-> stripeProduct.id,
              stripePriceId |-> stripeProduct.priceId,
              name |-> stripeProduct.name,
              price |-> stripeProduct.price,
              description |-> None,
              isFeatured |-> FALSE,
              inventory |-> stripeProduct.inventory,
              source |-> "stripe"]]

\* getMergedProducts over Square: an entry with a CMS record takes the
\* variant list cached in the record.
getMergedProductsSquare(squareProducts, sanityProducts) ==
  [i \in 1..Len(squareProducts) |->
     LET squareProduct == squareProducts[i]
         found == SanityProductOf(sanityProducts, squareProduct.id)
     IN IF found # None
        THEN [_id |-> found[1]._id,
              stripeProductId |-> squareProduct.id,
              prices |-> found[1].prices,
              name |-> found[1].name,
              price |-> found[1].price,
              description |-> found[1].description,
              isFeatured |-> found[1].isFeatured,
              inventory |-> squareProduct.inventory,
              source |-> "sanity"]
        ELSE [_id |-> "square-" \o squareProduct.id,
              stripeProductId |-> squareProduct.id,
              prices |-> squareProduct.prices,
              name |-> squareProduct.name,
              price |-> squareProduct.price,
              description |-> None,
              isFeatured |-> FALSE,
              inventory |-> squareProduct.inventory,
              source |-> "square"]]

\* --------------------------------------------------- webhook: the handlers
\* handleProductCreated: retrieve with default_price expanded, repair the stock
\* metadata, then sync when the product is active; all in one try/catch.
handleProductCreated(stk, docs, v, event) ==
  IF event.retrieveFails THEN [threw |-> FALSE, stock |-> stk, cms |-> docs]
  ELSE [threw |-> FALSE,
        stock |-> handleProductUpserted(stk, event),
        cms |-> IF v.active /\ ~event.cmsFails
                THEN syncStripeProductToSanity(docs, StripeProduct("p1", v, TRUE)).cms
                ELSE docs]

\* A handler that lets the failure of its CMS call escape (deliberately wrong:
\* C11 does not hold of it).
handleProductUpdatedRethrow(stk, docs, v, event) ==
  IF event.retrieveFails THEN [threw |-> FALSE, stock |-> stk, cms |-> docs]
  ELSE [threw |-> event.cmsFails,
        stock |-> handleProductUpserted(stk, event),
        cms |-> IF event.cmsFails THEN docs
                ELSE IF v.active
                THEN syncStripeProductToSanity(docs, StripeProduct("p1", v, TRUE)).cms
                ELSE removeStripeProductFromSanity(docs, "p1")]

\* handleProductUpdated: as handleProductCreated, but an inactive product's
\* record is removed.
handleProductUpdated(stk, docs, v, event) ==
  IF event.retrieveFails THEN [threw |-> FALSE, stock |-> stk, cms |-> docs]
  ELSE [threw |-> FALSE,
        stock |-> handleProductUpserted(stk, event),
        cms |-> IF event.cmsFails THEN docs
                ELSE IF v.active
                THEN syncStripeProductToSanity(docs, StripeProduct("p1", v, TRUE)).cms
                ELSE removeStripeProductFromSanity(docs, "p1")]

\* handleProductDeleted: the record is removed; in one try/catch.
handleProductDeleted(stk, docs, v, event) ==
  [threw |-> FALSE, stock |-> stk,
   cms |-> IF event.cmsFails THEN docs
           ELSE removeStripeProductFromSanity(docs, "p1")]

\* handlePriceCreatedOrUpdated: the price's product is retrieved without
\* expanding default_price and synced when active; in one try/catch.
handlePriceCreatedOrUpdated(stk, docs, v, event) ==
  [threw |-> FALSE, stock |-> stk,
   cms |-> IF event.retrieveFails \/ event.cmsFails \/ ~v.active THEN docs
           ELSE syncStripeProductToSanity(docs, StripeProduct("p1", v, FALSE)).cms]

\* The e-mails handleCheckoutSessionCompleted sends: the customer's
\* confirmation and the admin's notification, unless the e-mail API fails.
OrderEmails(event) ==
  IF event.retrieveFails \/ event.emailFails THEN 0 ELSE 2

SignatureHeaders == {"missing", "invalid", "valid"}

CheckoutEvents == {"checkout.session.completed"}
ProductUpsertEvents == {"product.created", "product.updated"}
OtherEvents == {"product.deleted", "price.updated", "payment_intent.succeeded", "other"}

\* The events of C11: product created/updated/deleted, price created/updated
CatalogEvents == {"product.created", "product.updated", "product.deleted", "price.updated"}

\* The line items of a checkout session: a quantity per price.
LineItemSets == UNION {[D -> Quantities] : D \in SUBSET Shelf}

NoLineItems == [v \in {} |-> 0]

\* The events a request can carry, with the calls that throw while it is
\* handled: a vendor call (retrieveFails, or per line item: failing), a CMS
\* call (cmsFails), the e-mail API (emailFails).
Events ==
  {[type |-> t, lineItems |-> l, failing |-> f, retrieveFails |-> r,
    cmsFails |-> FALSE, emailFails |-> e]
     : t \in CheckoutEvents, l \in LineItemSets, f \in SUBSET Shelf,
       r \in BOOLEAN, e \in BOOLEAN}
  \cup
  {[type |-> t, lineItems |-> NoLineItems, failing |-> {}, retrieveFails |-> r,
    cmsFails |-> c, emailFails |-> FALSE]
     : t \in CatalogEvents, r \in BOOLEAN, c \in BOOLEAN}
  \cup
  {[type |-> t, lineItems |-> NoLineItems, failing |-> {}, retrieveFails |-> FALSE,
    cmsFails |-> FALSE, emailFails |-> FALSE]
     : t \in OtherEvents \ CatalogEvents}

\* Events during whose handling no call fails
CleanEvents ==
  {e \in Events : /\ e.failing = {} /\ ~e.retrieveFails
                  /\ ~e.cmsFails /\ ~e.emailFails}

WithSignature(sig, e) ==
  [signature |-> sig, type |-> e.type, lineItems |-> e.lineItems,
   failing |-> e.failing, retrieveFails |-> e.retrieveFails,
   cmsFails |-> e.cmsFails, emailFails |-> e.emailFails]

\* A webhook request: its signature header and the event in its body.
Requests ==
  {WithSignature("valid", e) : e \in {x \in Events : x.failing \subseteq DOMAIN x.lineItems}}
  \cup {WithSignature(sig, e) : sig \in {"missing", "invalid"}, e \in CleanEvents}

\* The switch of POST on event.type
Dispatch(stk, docs, v, event) ==
  IF event.type \in CheckoutEvents
  THEN LET r == handleCheckoutSessionCompleted(stk, event)
       IN [threw |-> r.threw, stock |-> r.stock, cms |-> docs,
           emails |-> OrderEmails(event)]
  ELSE LET r == CASE event.type = "product.created" ->
                       handleProductCreated(stk, docs, v, event)
                  [] event.type = "product.updated" ->
                       handleProductUpdated(stk, docs, v, event)
                  [] event.type = "product.deleted" ->
                       handleProductDeleted(stk, docs, v, event)
                  [] event.type = "price.updated" ->
                       handlePriceCreatedOrUpdated(stk, docs, v, event)
                  [] OTHER -> [threw |-> FALSE, stock |-> stk, cms |-> docs]
       IN [threw |-> r.threw, stock |-> r.stock, cms |-> r.cms, emails |-> 0]

\* A POST that handles the event before it looks at the signature
\* (deliberately wrong: C12 does not hold of it).
POSTUnverified(secretSet, stk, docs, v, req) ==
  LET r == Dispatch(stk, docs, v, req)
  IN IF req.signature = "missing" \/ (secretSet /\ req.signature = "invalid")
     THEN [status |-> 400, stock |-> r.stock, cms |-> r.cms, emails |-> r.emails]
     ELSE IF ~secretSet
     THEN [status |-> 500, stock |-> r.stock, cms |-> r.cms, emails |-> r.emails]
     ELSE [status |-> IF r.threw THEN 500 ELSE 200,
           stock |-> r.stock, cms |-> r.cms, emails |-> r.emails]

\* POST of the Stripe webhook route: the response status, and the stock
\* metadata, the CMS records and the e-mails sent after the request.
POST(secretSet, stk, docs, v, req) ==
  LET rejected(status) ==
        [status |-> status, stock |-> stk, cms |-> docs, emails |-> 0]
  IN IF req.signature = "missing" THEN rejected(400)
     ELSE IF ~secretSet THEN rejected(500)
     ELSE IF req.signature = "invalid" THEN rejected(400)
     ELSE LET r == Dispatch(stk, docs, v, req)
          IN [status |-> IF r.threw THEN 500 ELSE 200,
              stock |-> r.stock, cms |-> r.cms, emails |-> r.emails]

\* ------------------------------------------------------------------- state
VARIABLES
  items,             \* CartProvider state `items`
  productInventory,  \* CartProvider state `productInventory` (a Map)
  removedItems,      \* removedItems of the validateCart call just made, else {}
  adjustedItems,     \* adjustedItems of the validateCart call just made, else {}
  lastCall,          \* the last Cart Store call: its name and the product it touched
  givenTotal,        \* per product, the inventory total last handed to the cart
  stock,             \* Stripe product.metadata.stock, per product
  page,              \* the products the page on screen was rendered with
  accepted,          \* the checkout session the last step created, if any
  webhookSecret,     \* whether STRIPE_WEBHOOK_SECRET is configured
  request,           \* the webhook request the last step handled, if any
  response,          \* its response status, and what held before it
  vendor,            \* the product as the vendor holds it
  cms,               \* the CMS product records, by _id
  pending,           \* the webhook events sent by the vendor and not yet received
  handlers,          \* per webhook invocation in flight: where it is, what it read
  lastStep,          \* the CMS call the last step made, and the record before it
  catalog,           \* what the vendor catalog read and the CMS read report
  merged,            \* the merged catalog last computed, and over which vendor
  storage,           \* localStorage: the cart and the inventory totals saved
  mount,             \* the page's mount: which effects ran, CartProvider's isInitialized
  price,             \* a price (variation) at the vendor: its nickname, its base_units
  priceStep,         \* the last step on the price, and the base_units before it
  sanityBaseUnits,   \* prices[].baseUnits of the CMS record, once synced
  priceEvents,       \* the price.updated events sent and not yet handled
  orders,            \* per checkout: what was bought, deliveries and decrements so far
  workers,           \* per checkout handler in flight: where it is, what it read
  openingStock,      \* the stock before any checkout completed
  batch              \* the batch operation under way: what is left, what was done

vars == <<items, productInventory, removedItems, adjustedItems, lastCall,
          givenTotal, stock, page, accepted, webhookSecret, request, response,
          vendor, cms, pending, handlers, lastStep, catalog, merged, storage,
          mount, price, priceStep, sanityBaseUnits, priceEvents, orders,
          workers, openingStock, batch>>

cartVars == <<items, productInventory, removedItems, adjustedItems, lastCall,
              givenTotal>>

shopVars == <<page, accepted>>

loadVars == <<storage, mount>>

mergeVars == <<catalog, merged>>

syncVars == <<pending, handlers, lastStep, mergeVars>>

priceVars == <<price, priceStep, sanityBaseUnits, priceEvents>>

orderVars == <<orders, workers, openingStock>>

opsVars == <<priceVars, orderVars, batch>>

hookVars == <<webhookSecret, request, response, vendor, cms, syncVars, opsVars>>

EmptyCart == [i \in {} |-> None]

NoCall == [op |-> "none", productId |-> ""]

NoPage == [p \in {} |-> None]

NoCheckout == [created |-> FALSE, ordered |-> [p \in Products |-> 0],
               stock |-> [p \in Products |-> None]]

NoRequest == [signature |-> "none", type |-> "none", lineItems |-> NoLineItems,
              failing |-> {}, retrieveFails |-> FALSE, cmsFails |-> FALSE,
              emailFails |-> FALSE]

NoResponse == [status |-> 0, before |-> [p \in Products |-> None],
               cmsBefore |-> NoCms, emails |-> 0]

\* A webhook invocation: where it is (pc), the event it handles (kind), the
\* product it retrieved from the vendor, the record its CMS query found.
NoProduct ==
  [id |-> "none", name |-> "X", active |-> FALSE, default_price |-> "none",
   unit_amount |-> 0]

Idle == [pc |-> "idle", kind |-> "none", product |-> NoProduct, existing |-> None]

Handlers == {1, 2}

NoStep == [call |-> "none", before |-> None]

NoPrice == [nickname |-> None, base_units |-> None]

NoPriceStep == [op |-> "none", wrote |-> FALSE, before |-> None]

Orders == {"o1", "o2"}

NoOrder ==
  [priceId |-> "none", quantity |-> 0, sent |-> 0, inFlight |-> 0,
   decrements |-> 0]

NoWorker == [pc |-> "idle", order |-> "none", newQuantity |-> 0]

NoBatch ==
  [op |-> "none", todo |-> <<>>, failing |-> {}, succeeded |-> {},
   failed |-> {}, threw |-> FALSE]

InitOps ==
  /\ price = NoPrice /\ priceStep = NoPriceStep /\ sanityBaseUnits = None
  /\ priceEvents = 0
  /\ orders = [o \in Orders |-> NoOrder]
  /\ workers = [h \in Handlers |-> NoWorker]
  /\ openingStock = 0
  /\ batch = NoBatch

NoMerge == [over |-> "none", products |-> <<>>]

InitMerge ==
  /\ catalog = [vendor |-> <<>>, sanity |-> <<>>]
  /\ merged = NoMerge

InitSync ==
  /\ pending = {}
  /\ handlers = [h \in Handlers |-> Idle]
  /\ lastStep = NoStep
  /\ InitMerge

\* An active product "X" with a default price
ListedProduct ==
  [deleted |-> FALSE, active |-> TRUE, name |-> "X", hasDefaultPrice |-> TRUE,
   amount |-> 500]

InitCart ==
  /\ items = EmptyCart
  /\ productInventory = [p \in {} |-> 0]
  /\ removedItems = {}
  /\ adjustedItems = {}
  /\ lastCall = NoCall
  /\ givenTotal = [p \in Products |-> None]

\* JSON.stringify(items): the array of the line items, as text
stringify(its) == {its[i] : i \in DOMAIN its}

\* JSON.parse(savedCart) as CartItem[]: the lines by their id again
parse(text) ==
  [v \in {line.priceId : line \in text} |-> CHOOSE line \in text : line.priceId = v]

\* Nothing saved yet
NoStorage == [items |-> stringify(EmptyCart), inventory |-> [p \in {} |-> 0]]

\* No page mounted yet
NotMounted == [phase |-> "none", isInitialized |-> FALSE, validated |-> FALSE]

InitLoad == storage = NoStorage /\ mount = NotMounted

InitShop == page = NoPage /\ accepted = NoCheckout /\ InitLoad /\ InitOps

InitHook ==
  /\ webhookSecret = TRUE /\ request = NoRequest /\ response = NoResponse
  /\ vendor = ListedProduct /\ cms = NoCms
  /\ InitSync

\* A product without a recorded total has no cap in the code: the model stops
\* adding to a line beyond the cap.
Bounded(its, cap) == \A i \in DOMAIN its : its[i].quantity <= cap

\* The product a call on line id touches: none when the cart has no such line.
Touched(its, id) == IF id \in DOMAIN its THEN its[id].productId ELSE ""

\* addItem(item) called by `caller` for price v, the item built from `total`
AddItemCall(caller, v, total, quantity, cap) ==
  LET item == CartItemFrom(caller, items, v, total, quantity)
      r == addItem(items, productInventory, item)
  IN /\ Bounded(r.items, cap)
     /\ items' = r.items
     /\ productInventory' = r.productInventory
     /\ lastCall' = [op |-> "addItem", productId |-> item.productId]
     /\ givenTotal' = IF caller = "ProductAddToCart"
                      THEN [givenTotal EXCEPT ![item.productId] = total]
                      ELSE givenTotal
     /\ removedItems' = {}
     /\ adjustedItems' = {}

\* updateQuantity(id, quantity); a quantity <= 0 is removeItem(id)
UpdateQuantityCall(id, quantity) ==
  /\ items' = updateQuantity(items, productInventory, id, quantity)
  /\ lastCall' = [op |-> IF quantity <= 0 THEN "removeItem" ELSE "updateQuantity",
                  productId |-> Touched(items, id)]
  /\ removedItems' = {}
  /\ adjustedItems' = {}
  /\ UNCHANGED <<productInventory, givenTotal>>

\* removeItem(id)
RemoveItemCall(id) ==
  /\ items' = removeItem(items, productInventory, id)
  /\ lastCall' = [op |-> "removeItem", productId |-> Touched(items, id)]
  /\ removedItems' = {}
  /\ adjustedItems' = {}
  /\ UNCHANGED <<productInventory, givenTotal>>

\* validateCart(products)
ValidateCartCall(products) ==
  LET r == validateCart(items, products)
  IN /\ items' = r.items
     /\ removedItems' = r.removedItems
     /\ adjustedItems' = r.adjustedItems
     /\ lastCall' = [op |-> "validateCart", productId |-> ""]
     /\ givenTotal' = [p \in Products |->
                         IF p \in DOMAIN products
                         THEN products[p].inventory.quantity
                         ELSE givenTotal[p]]
     /\ UNCHANGED productInventory

\* clearCart(): setItems([]) and nothing else
ClearCartCall ==
  /\ items' = EmptyCart
  /\ lastCall' = [op |-> "clearCart", productId |-> ""]
  /\ removedItems' = {}
  /\ adjustedItems' = {}
  /\ UNCHANGED <<productInventory, givenTotal>>

\* ------------------------------------------- Spec: the Cart Store, any input
ShelfSnapshots == Snapshots(Shelf, Totals)

AddItem ==
  \E caller \in Callers, v \in Shelf, quantity \in Quantities, total \in Totals :
    /\ AddItemCall(caller, v, total, quantity, MaxQty + 1)
    /\ UNCHANGED <<stock, shopVars, hookVars, loadVars>>

UpdateQuantity ==
  \E id \in Shelf, quantity \in Quantities \cup {0} :
    /\ UpdateQuantityCall(id, quantity)
    /\ UNCHANGED <<stock, shopVars, hookVars, loadVars>>

RemoveItem ==
  \E id \in Shelf :
    /\ RemoveItemCall(id)
    /\ UNCHANGED <<stock, shopVars, hookVars, loadVars>>

\* clearCart(): setItems([])
ClearCart ==
  /\ ClearCartCall
  /\ UNCHANGED <<stock, shopVars, hookVars, loadVars>>

ValidateCart ==
  \E products \in ShelfSnapshots :
    /\ ValidateCartCall(products)
    /\ UNCHANGED <<stock, shopVars, hookVars, loadVars>>

Init == InitCart /\ InitShop /\ InitHook /\ stock = [p \in Products |-> None]

Next == AddItem \/ UpdateQuantity \/ RemoveItem \/ ClearCart \/ ValidateCart

Spec == Init /\ [][Next]_vars

\* ------------------- SpecPool: add/update/remove against one fixed pool
\* addItem by a page that shows the product's current stock
AddItemFresh ==
  \E caller \in Callers, v \in Shelf, quantity \in Quantities :
    /\ AddItemCall(caller, v, stock[PriceProduct(v)], quantity, MaxQty + 1)
    /\ UNCHANGED <<stock, shopVars, hookVars, loadVars>>

InitPool == InitCart /\ InitShop /\ InitHook /\ stock \in [Products -> Totals]

NextPool == AddItemFresh \/ UpdateQuantity \/ RemoveItem

SpecPool == InitPool /\ [][NextPool]_vars

\* ------------------------------ SpecShop: a customer's browser and the vendor
\* product.inventory?.available ?? false of the page on screen
inStock(p) == p \in DOMAIN page /\ page[p].inventory.available

quantityInCart(v) == IF v \in DOMAIN items THEN items[v].quantity ELSE 0

\* A page is fetched and mounted.  After a navigation inside the app the
\* CartValidator's effect sees the cart and validates it; after a full load the
\* effect runs while items is still [] and does nothing.
LoadPage ==
  \E full \in BOOLEAN :
    /\ page' = getStripeProducts(stock)
    /\ IF ~full /\ items # EmptyCart
       THEN ValidateCartCall(page')
       ELSE UNCHANGED cartVars
    /\ accepted' = NoCheckout
    /\ UNCHANGED <<stock, hookVars, loadVars>>

\* The "Add to Cart" button of ProductAddToCart or ProductCard: shown while the
\* variant's quantity in the cart is 0, disabled only when not in stock.
PageAddToCart ==
  \E caller \in Callers, v \in Shelf :
    /\ inStock(PriceProduct(v))
    /\ quantityInCart(v) = 0
    /\ AddItemCall(caller, v, page[PriceProduct(v)].inventory.quantity, 1, MaxPool)
    /\ accepted' = NoCheckout
    /\ UNCHANGED <<stock, page, hookVars, loadVars>>

\* The "+" button of ProductAddToCart or ProductCard (handleIncrement)
PageIncrement ==
  \E caller \in Callers, v \in Shelf :
    LET maxQuantity ==
          CartItemFrom(caller, items, v, page[PriceProduct(v)].inventory.quantity, 1).maxQuantity
    IN /\ inStock(PriceProduct(v))
       /\ quantityInCart(v) > 0
       /\ maxQuantity = None \/ quantityInCart(v) < maxQuantity[1]
       /\ UpdateQuantityCall(v, quantityInCart(v) + 1)
       /\ accepted' = NoCheckout
       /\ UNCHANGED <<stock, page, hookVars, loadVars>>

\* The "+" button of the cart modal, disabled at the line's cached maxQuantity
CartModalIncrement ==
  \E v \in DOMAIN items :
    /\ items[v].maxQuantity = None \/ items[v].quantity < items[v].maxQuantity[1]
    /\ items[v].quantity < MaxPool
    /\ UpdateQuantityCall(v, items[v].quantity + 1)
    /\ accepted' = NoCheckout
    /\ UNCHANGED <<stock, page, hookVars, loadVars>>

\* The "-" button of the cart modal or of a page (handleDecrement)
CartModalDecrement ==
  \E v \in DOMAIN items :
    /\ UpdateQuantityCall(v, items[v].quantity - 1)
    /\ accepted' = NoCheckout
    /\ UNCHANGED <<stock, page, hookVars, loadVars>>

\* The stock metadata changes at the vendor: an edit in the dashboard, or
\* another customer's purchase.
VendorSetStock ==
  \E n \in 0..MaxPool :
    /\ stock' = [stock EXCEPT !["p1"] = Some(n)]
    /\ accepted' = NoCheckout
    /\ UNCHANGED <<cartVars, page, hookVars, loadVars>>

\* StripeCheckoutButton.handleCheckout and POST create-checkout-session: a
\* session is created from the cart's lines (Stripe takes quantities >= 1).
CreateCheckoutSession ==
  /\ items # EmptyCart
  /\ \A i \in DOMAIN items : items[i].quantity >= 1
  /\ accepted' = [created |-> TRUE,
                  ordered |-> [p \in Products |-> UsedByProduct(items, p)],
                  stock |-> stock]
  /\ UNCHANGED <<cartVars, stock, page, hookVars, loadVars>>

InitShopping ==
  InitCart /\ InitShop /\ InitHook /\ stock \in [Products -> {Some(n) : n \in 0..MaxPool}]

NextShop ==
  \/ LoadPage \/ PageAddToCart \/ PageIncrement \/ CartModalIncrement
  \/ CartModalDecrement \/ VendorSetStock \/ CreateCheckoutSession

SpecShop == InitShopping /\ [][NextShop]_vars

\* ------------------------------------- SpecHook: the Stripe webhook endpoint
\* One request is received and answered.
Post ==
  \E req \in Requests :
    LET r == POST(webhookSecret, stock, cms, vendor, req)
    IN /\ stock' = r.stock
       /\ cms' = r.cms
       /\ request' = req
       /\ response' = [status |-> r.status, before |-> stock, cmsBefore |-> cms,
                       emails |-> r.emails]
       /\ UNCHANGED <<cartVars, shopVars, loadVars, opsVars, webhookSecret, vendor, syncVars>>

\* The stock metadata is edited at the vendor (or removed).
VendorEditStock ==
  \E n \in Totals :
    /\ stock' = [stock EXCEPT !["p1"] = n]
    /\ request' = NoRequest
    /\ response' = NoResponse
    /\ UNCHANGED <<cartVars, shopVars, loadVars, opsVars, webhookSecret, vendor, cms, syncVars>>

InitHooks ==
  /\ InitCart /\ InitShop
  /\ webhookSecret \in BOOLEAN
  /\ request = NoRequest /\ response = NoResponse
  /\ stock \in [Products -> Totals]
  /\ vendor \in {v \in VendorProducts :
                    v.name = "X" /\ v.hasDefaultPrice /\ ~v.deleted}
  /\ cms = NoCms
  /\ InitSync

NextHook == Post \/ VendorEditStock

SpecHook == InitHooks /\ [][NextHook]_vars

\* ------------------------------ SpecSync: webhook invocations, step by step
\* The CMS-only fields of the product's record, none when it has no record
CmsOnly(docs, p) ==
  IF ExistingProduct(docs, p) = None THEN None
  ELSE Some(<<docs[ExistingProduct(docs, p)[1]].description,
              docs[ExistingProduct(docs, p)[1]].isFeatured>>)

\* The vendor sends an event; events of one type not yet received are one.
Send(event) == pending' = pending \cup {event}

\* The product is renamed, activated or deactivated at the vendor.
VendorEditProduct ==
  \E name \in Names, active \in BOOLEAN :
    /\ ~vendor.deleted
    /\ <<name, active>> # <<vendor.name, vendor.active>>
    /\ vendor' = [vendor EXCEPT !.name = name, !.active = active]
    /\ Send("product.updated")
    /\ lastStep' = NoStep
    /\ UNCHANGED <<cartVars, shopVars, loadVars, opsVars, mergeVars, stock, webhookSecret, request, response,
                   cms, handlers>>

\* A price of the product is edited at the vendor (its metadata, its nickname).
VendorEditPrice ==
  /\ ~vendor.deleted
  /\ Send("price.updated")
  /\ lastStep' = NoStep
  /\ UNCHANGED <<cartVars, shopVars, loadVars, opsVars, mergeVars, stock, webhookSecret, request, response,
                 vendor, cms, handlers>>

\* The product is deleted at the vendor.
VendorDeleteProduct ==
  /\ ~vendor.deleted
  /\ vendor' = [vendor EXCEPT !.deleted = TRUE, !.active = FALSE]
  /\ Send("product.deleted")
  /\ lastStep' = NoStep
  /\ UNCHANGED <<cartVars, shopVars, loadVars, opsVars, mergeVars, stock, webhookSecret, request, response,
                 cms, handlers>>

\* An editor writes the description and sets the featured flag in the CMS.
EditorEdit ==
  /\ ExistingProduct(cms, "p1") # None
  /\ cms[ExistingProduct(cms, "p1")[1]].description = None
  /\ cms' = [cms EXCEPT ![ExistingProduct(cms, "p1")[1]] =
               [@ EXCEPT !.description = Some("D"), !.isFeatured = TRUE]]
  /\ lastStep' = NoStep
  /\ UNCHANGED <<cartVars, shopVars, loadVars, opsVars, mergeVars, stock, webhookSecret, request, response,
                 vendor, pending, handlers>>

\* POST receives a pending event (in any order) and dispatches on its type.
Receive(h) ==
  \E event \in pending :
    /\ handlers[h].pc = "idle"
    /\ pending' = pending \ {event}
    /\ handlers' = [handlers EXCEPT ![h] =
                      [Idle EXCEPT !.kind = event,
                                   !.pc = IF event = "product.deleted"
                                          THEN "remove" ELSE "retrieve"]]
    /\ lastStep' = NoStep
    /\ UNCHANGED <<cartVars, shopVars, loadVars, opsVars, mergeVars, stock, webhookSecret, request, response,
                   vendor, cms>>

\* stripe.products.retrieve of the product handlers and of the price handler
\* (which does not expand default_price), with the stock metadata repair of
\* the product handlers, and the branch on product.active.  Retrieving a
\* deleted product throws, and the handler's catch ends it.
Retrieve(h) ==
  LET kind == handlers[h].kind
      product == StripeProduct("p1", vendor, kind # "price.updated")
  IN /\ handlers[h].pc = "retrieve"
     /\ handlers' = [handlers EXCEPT ![h] =
          IF vendor.deleted THEN Idle
          ELSE IF product.active
          THEN [@ EXCEPT !.pc = "sync", !.product = product]
          ELSE IF kind = "product.updated"
          THEN [@ EXCEPT !.pc = "remove", !.product = product]
          ELSE Idle]
     /\ stock' = IF vendor.deleted \/ kind = "price.updated" THEN stock
                 ELSE [p \in Products |-> ensureStockMetadata(stock[p])]
     /\ lastStep' = NoStep
     /\ UNCHANGED <<cartVars, shopVars, loadVars, opsVars, mergeVars, webhookSecret, request, response,
                    vendor, cms, pending>>

\* syncStripeProductToSanity up to its query for the existing record: it
\* returns at once for a product without default price.
SyncFetch(h) ==
  /\ handlers[h].pc = "sync"
  /\ handlers' = [handlers EXCEPT ![h] =
       IF handlers[h].product.default_price = "none" THEN Idle
       ELSE [@ EXCEPT !.pc = "write",
                      !.existing = ExistingProduct(cms, handlers[h].product.id)]]
  /\ lastStep' = NoStep
  /\ UNCHANGED <<cartVars, shopVars, loadVars, opsVars, mergeVars, stock, webhookSecret, request, response,
                 vendor, cms, pending>>

\* syncStripeProductToSanity from there: the patch or the createIfNotExists.
SyncCommit(h) ==
  LET r == SyncWrite(cms, handlers[h].existing, handlers[h].product)
  IN /\ handlers[h].pc = "write"
     /\ cms' = r.cms
     /\ handlers' = [handlers EXCEPT ![h] = Idle]
     /\ lastStep' = IF r.threw THEN NoStep
                    ELSE [call |-> "sync", before |-> CmsOnly(cms, "p1")]
     /\ UNCHANGED <<cartVars, shopVars, loadVars, opsVars, mergeVars, stock, webhookSecret, request, response,
                    vendor, pending>>

\* removeStripeProductFromSanity up to its lookup of the record
RemoveLookup(h) ==
  /\ handlers[h].pc = "remove"
  /\ handlers' = [handlers EXCEPT ![h] =
       IF ExistingProduct(cms, "p1") = None THEN Idle
       ELSE [@ EXCEPT !.pc = "delete", !.existing = ExistingProduct(cms, "p1")]]
  /\ lastStep' = IF ExistingProduct(cms, "p1") = None
                 THEN [call |-> "remove", before |-> None]
                 ELSE NoStep
  /\ UNCHANGED <<cartVars, shopVars, loadVars, opsVars, mergeVars, stock, webhookSecret, request, response,
                 vendor, cms, pending>>

\* removeStripeProductFromSanity from there: the delete of the record found
RemoveCommit(h) ==
  /\ handlers[h].pc = "delete"
  /\ cms' = RemoveWrite(cms, handlers[h].existing)
  /\ handlers' = [handlers EXCEPT ![h] = Idle]
  /\ lastStep' = [call |-> "remove", before |-> CmsOnly(cms, "p1")]
  /\ UNCHANGED <<cartVars, shopVars, loadVars, opsVars, mergeVars, stock, webhookSecret, request, response,
                 vendor, pending>>

\* The product was just created at the vendor, with its stock metadata set.
InitSyncing ==
  /\ InitCart /\ InitShop
  /\ webhookSecret = TRUE /\ request = NoRequest /\ response = NoResponse
  /\ stock = [p \in Products |-> Some(MaxPool)]
  /\ vendor \in {v \in VendorProducts : v.hasDefaultPrice /\ ~v.deleted}
  /\ cms = NoCms
  /\ pending = {"product.created"}
  /\ handlers = [h \in Handlers |-> Idle]
  /\ lastStep = NoStep
  /\ InitMerge

NextSync ==
  \/ VendorEditProduct \/ VendorEditPrice \/ VendorDeleteProduct \/ EditorEdit
  \/ \E h \in Handlers :
       \/ Receive(h) \/ Retrieve(h)
       \/ SyncFetch(h) \/ SyncCommit(h)
       \/ RemoveLookup(h) \/ RemoveCommit(h)

SpecSync == InitSyncing /\ [][NextSync]_vars

\* -------------------- SpecRace: concurrent sync invocations, no record yet
\* Each invocation was handed a product, as a product handler (default_price
\* expanded) or the price handler (not expanded) retrieved it, before or after
\* a rename; whether the product has a default price does not change meanwhile.
InitRace ==
  /\ InitCart /\ InitShop
  /\ webhookSecret = TRUE /\ request = NoRequest /\ response = NoResponse
  /\ stock = [p \in Products |-> Some(MaxPool)]
  /\ vendor \in {v \in VendorProducts : v.active /\ ~v.deleted}
  /\ cms = NoCms
  /\ pending = {}
  /\ handlers \in [Handlers ->
       {[pc |-> "sync", kind |-> k, product |-> StripeProduct("p1", v, k # "price.updated"),
         existing |-> None]
          : k \in {"product.updated", "price.updated"},
            v \in {x \in VendorProducts :
                     /\ x.active /\ ~x.deleted
                     /\ x.hasDefaultPrice = vendor.hasDefaultPrice}}]
  /\ lastStep = NoStep
  /\ InitMerge

NextRace == \E h \in Handlers : SyncFetch(h) \/ SyncCommit(h)

SpecRace == InitRace /\ [][NextRace]_vars

\* ------------------------------------------ SpecMerge: the Catalog Merge
\* The storefront's catalog read over Stripe
MergeStripe ==
  /\ merged' = [over |-> "stripe",
                products |-> getMergedProducts(catalog.vendor, catalog.sanity)]
  /\ UNCHANGED <<cartVars, shopVars, loadVars, opsVars, stock, webhookSecret, request, response,
                 vendor, cms, pending, handlers, lastStep, catalog>>

\* The storefront's catalog read over Square
MergeSquare ==
  /\ merged' = [over |-> "square",
                products |-> getMergedProductsSquare(catalog.vendor, catalog.sanity)]
  /\ UNCHANGED <<cartVars, shopVars, loadVars, opsVars, stock, webhookSecret, request, response,
                 vendor, cms, pending, handlers, lastStep, catalog>>

InitMerging ==
  /\ InitCart /\ InitShop
  /\ webhookSecret = TRUE /\ request = NoRequest /\ response = NoResponse
  /\ stock = [p \in Products |-> None]
  /\ vendor = ListedProduct /\ cms = NoCms
  /\ pending = {} /\ handlers = [h \in Handlers |-> Idle] /\ lastStep = NoStep
  /\ catalog \in [vendor : VendorCatalogs, sanity : SanityCatalogs]
  /\ merged = NoMerge

NextMerge == MergeStripe \/ MergeSquare

SpecMerge == InitMerging /\ [][NextMerge]_vars

\* ------------------------------- SpecLoad: page loads and the saved cart
\* A save that never writes (deliberately wrong: C21 does not hold of it).
SavedToNever(store, initialized, its, inventory) ==
  store

\* The save effects of CartProvider, run after a render that changed items,
\* productInventory or isInitialized: nothing before isInitialized, the totals
\* only when there are some.
SavedTo(store, initialized, its, inventory) ==
  IF ~initialized THEN store
  ELSE [items |-> stringify(its),
        inventory |-> IF DOMAIN inventory # {} THEN inventory ELSE store.inventory]

Saved(initialized, its, inventory) == SavedTo(storage, initialized, its, inventory)

\* The browser loads a page that mounts CartValidator: CartProvider starts
\* from its initial state, the page carries a fresh snapshot.
FullPageLoad ==
  /\ mount.phase \in {"none", "ready"}
  /\ page' = getStripeProducts(stock)
  /\ items' = EmptyCart
  /\ productInventory' = [p \in {} |-> 0]
  /\ removedItems' = {}
  /\ adjustedItems' = {}
  /\ lastCall' = NoCall
  /\ givenTotal' = [p \in Products |-> None]
  /\ mount' = [phase |-> "mounted", isInitialized |-> FALSE, validated |-> FALSE]
  /\ accepted' = NoCheckout
  /\ UNCHANGED <<stock, hookVars, storage>>

\* A navigation inside the app to a page that mounts CartValidator:
\* CartProvider stays mounted, the page carries a fresh snapshot.
Navigate ==
  /\ mount.phase = "ready"
  /\ page' = getStripeProducts(stock)
  /\ mount' = [mount EXCEPT !.phase = "mounted", !.validated = FALSE]
  /\ accepted' = NoCheckout
  /\ UNCHANGED <<cartVars, stock, hookVars, storage>>

\* The mount effect of CartValidator, which runs before the effects of the
\* CartProvider above it: validateCart(products) if items is not empty.
ValidatorEffect ==
  /\ mount.phase = "mounted"
  /\ IF items # EmptyCart
     THEN /\ ValidateCartCall(page)
          /\ mount' = [mount EXCEPT !.validated = TRUE,
                         !.phase = IF mount.isInitialized THEN "ready" ELSE "loading"]
          /\ storage' = Saved(mount.isInitialized, items', productInventory')
     ELSE /\ mount' = [mount EXCEPT
                         !.phase = IF mount.isInitialized THEN "ready" ELSE "loading"]
          /\ UNCHANGED <<cartVars, storage>>
  /\ UNCHANGED <<stock, page, accepted, hookVars>>

\* The mount effects of CartProvider: the saved cart and totals are read and
\* isInitialized is set; the save effects run with the state of the first
\* render, and again after the render with the restored state.
LoadEffect ==
  /\ mount.phase = "loading"
  /\ items' = parse(storage.items)
  /\ productInventory' = storage.inventory
  /\ mount' = [mount EXCEPT !.phase = "ready", !.isInitialized = TRUE]
  /\ storage' = SavedTo(SavedTo(storage, mount.isInitialized, items, productInventory),
                        TRUE, items', productInventory')
  /\ UNCHANGED <<removedItems, adjustedItems, lastCall, givenTotal, stock, page,
                 accepted>>
  /\ UNCHANGED hookVars

\* The "Add to Cart" button on the mounted page, and the save that follows
AddToCartAndSave ==
  \E caller \in Callers, v \in Shelf :
    /\ mount.phase = "ready"
    /\ inStock(PriceProduct(v))
    /\ quantityInCart(v) = 0
    /\ AddItemCall(caller, v, page[PriceProduct(v)].inventory.quantity, 1, MaxPool)
    /\ storage' = Saved(TRUE, items', productInventory')
    /\ UNCHANGED <<stock, page, accepted, hookVars, mount>>

\* updateQuantity from the cart modal (a quantity <= 0 removes the line), and
\* the save that follows
UpdateQuantityAndSave ==
  \E id \in Shelf, quantity \in Quantities \cup {0} :
    /\ mount.phase = "ready"
    /\ id \in DOMAIN items
    /\ UpdateQuantityCall(id, quantity)
    /\ storage' = Saved(TRUE, items', productInventory')
    /\ UNCHANGED <<stock, page, accepted, hookVars, mount>>

\* removeItem from the cart modal, and the save that follows
RemoveItemAndSave ==
  \E id \in Shelf :
    /\ mount.phase = "ready"
    /\ id \in DOMAIN items
    /\ RemoveItemCall(id)
    /\ storage' = Saved(TRUE, items', productInventory')
    /\ UNCHANGED <<stock, page, accepted, hookVars, mount>>

\* clearCart, and the save that follows
ClearCartAndSave ==
  /\ mount.phase = "ready"
  /\ ClearCartCall
  /\ storage' = Saved(TRUE, items', productInventory')
  /\ UNCHANGED <<stock, page, accepted, hookVars, mount>>

\* The stock metadata is edited at the vendor.
VendorRestock ==
  \E n \in 0..MaxPool :
    /\ stock' = [stock EXCEPT !["p1"] = Some(n)]
    /\ UNCHANGED <<cartVars, shopVars, hookVars, loadVars>>

InitLoading ==
  /\ InitCart /\ InitShop /\ InitHook
  /\ stock \in [Products -> {Some(n) : n \in 0..MaxPool}]

NextLoad ==
  \/ FullPageLoad \/ Navigate \/ ValidatorEffect \/ LoadEffect
  \/ AddToCartAndSave \/ UpdateQuantityAndSave \/ RemoveItemAndSave
  \/ ClearCartAndSave \/ VendorRestock

SpecLoad == InitLoading /\ [][NextLoad]_vars

\* The mount effects run once the page is mounted; loads, navigations and
\* clicks are the visitor's.
SpecLoadFair ==
  SpecLoad /\ WF_vars(ValidatorEffect) /\ WF_vars(LoadEffect)

\* ------------------------------------------------------------------ claims
\* C1: for any sequence of addItem, updateQuantity and removeItem calls from an
\* empty cart, after each call and for every product whose pool is not
\* unlimited, the base units of the product's lines (quantity x baseUnits,
\* summed) are at most the product's totalBaseUnits.  (SpecPool; stated as the
\* claim has it, the code violates it.)
C1_PoolInvariant ==
  \A p \in Products :
    stock[p] # None => UsedByProduct(items, p) <= stock[p][1]

\* C2: once the cart has been given a product's current total T (by a
\* validateCart snapshot or by the totalInventory of an addItem call), the
\* base units of the product's lines are at most T after that call and after
\* every later call.  (Stated as the claim has it, the code violates it.)
C2_GivenTotalInvariant ==
  \A p \in Products :
    givenTotal[p] # None => UsedByProduct(items, p) <= givenTotal[p][1]

\* C3: validateCart is idempotent: on any cart and any snapshot, a second run
\* with the same snapshot returns the cart of the first run unchanged (lines,
\* quantities, cached maxima) and records no removed or adjusted line.
\* (Stated as the claim has it, the code violates it.)
C3_ValidateIdempotent ==
  \A products \in ShelfSnapshots :
    LET first == validateCart(items, products)
        second == validateCart(first.items, products)
    IN /\ second.items = first.items
       /\ second.removedItems = {}
       /\ second.adjustedItems = {}

\* floor(max(0, total - usage of the product's other lines) / multiplier)
AllocationMax(its, i, total) ==
  Max(0, total - UsedByOthers(its, its[i].productId, i)) \div its[i].baseUnits

\* The example of C4: with a total of 100 a multiplier-4 line has max 25 when
\* alone and max 22 once 10 of a multiplier-1 variant are in the cart.
C4_Example ==
  LET alone == addItem(EmptyCart, [p \in {} |-> 0],
                       ProductAddToCartItem(EmptyCart, "p1_1lb", Some(100), 1))
      both == addItem(alone.items, alone.productInventory,
                      ProductAddToCartItem(alone.items, "p1_4oz", Some(100), 10))
  IN /\ alone.items["p1_1lb"].maxQuantity = Some(25)
     /\ both.items["p1_4oz"].quantity = 10
     /\ both.items["p1_1lb"].maxQuantity = Some(22)

\* C4: after every addItem, updateQuantity or removeItem call, every remaining
\* line of the product the call touched, when the product's total is recorded,
\* caches maxQuantity = floor(max(0, total - base units of the product's other
\* lines) / the line's multiplier), evaluated on the cart after the call; e.g. total 100, multiplier 4: max 25
\* alone, 22 beside 10 of a multiplier-1 variant.
C4_CachedMaxAfterMutation ==
  /\ C4_Example
  /\ lastCall.op \in {"addItem", "updateQuantity", "removeItem"} =>
      \A i \in DOMAIN items :
        (items[i].productId = lastCall.productId
           /\ items[i].productId \in DOMAIN productInventory) =>
          items[i].maxQuantity =
            Some(AllocationMax(items, i, productInventory[items[i].productId]))

\* C4 witness: an addItem has just run on a product with a recorded total, the
\* cart holds two of its variants, and a sibling's usage has lowered a line's
\* cached maximum below total / multiplier.
C4_Witness ==
  /\ lastCall.op = "addItem"
  /\ "p1" \in DOMAIN productInventory
  /\ DOMAIN items = Shelf
  /\ \E i \in DOMAIN items :
       /\ items[i].quantity >= 1
       /\ items[i].maxQuantity # None
       /\ items[i].maxQuantity[1] >= 1
       /\ items[i].maxQuantity[1] < productInventory["p1"] \div items[i].baseUnits

\* C5: every line in the cart has quantity >= 1 after any sequence of addItem,
\* updateQuantity, removeItem and validateCart calls.  (Stated as the claim has
\* it, the code violates it.)
C5_QuantityAtLeastOne ==
  \A i \in DOMAIN items : items[i].quantity >= 1

\* A line that validateCart's first pass keeps, by the claim's own words: its
\* product is in the snapshot and available, its variant among the product's.
Survives(line, products) ==
  /\ line.productId \in DOMAIN products
  /\ products[line.productId].inventory.available
  /\ line.priceId \in products[line.productId].prices

\* The recomputed maximum M of a surviving line: the fresh total less the base
\* units of the surviving sibling lines, divided by the line's multiplier.
RecomputedMax(its, i, products) ==
  LET siblings == {j \in DOMAIN its : /\ j # i
                                      /\ its[j].productId = its[i].productId
                                      /\ Survives(its[j], products)}
      usage == SumOver([j \in DOMAIN its |-> its[j].quantity * its[j].baseUnits],
                       siblings)
      total == products[its[i].productId].inventory.quantity[1]
  IN Max(0, total - usage) \div its[i].baseUnits

\* The example of C6: 25 of a multiplier-4 variant, the pool reduced from 100
\* to 40, becomes quantity 10 with one adjusted record from 25 to 10.
C6_Example ==
  LET cart == addItem(EmptyCart, [p \in {} |-> 0],
                      ProductAddToCartItem(EmptyCart, "p1_1lb", Some(100), 25)).items
      snapshot == [p \in {"p1"} |->
                     [prices |-> PricesOf("p1"),
                      inventory |-> [quantity |-> Some(40), available |-> TRUE]]]
      r == validateCart(cart, snapshot)
  IN /\ cart["p1_1lb"].quantity = 25
     /\ r.items["p1_1lb"].quantity = 10
     /\ r.adjustedItems = {[id |-> "p1_1lb", from |-> 25, to |-> 10]}
     /\ r.removedItems = {}

\* C6: when validateCart runs with a snapshot in which a surviving line's
\* recomputed maximum M is below its quantity: with M = 0 the line is dropped
\* and recorded as removed, otherwise its quantity becomes M and exactly one
\* adjusted record (from = old quantity, to = M) is produced for it; a line
\* whose quantity does not exceed M keeps its quantity; e.g. 25 of a
\* multiplier-4 variant with the pool cut from 100 to 40 becomes 10.
C6_ClampOnValidate ==
  C6_Example /\ \A products \in ShelfSnapshots :
    LET r == validateCart(items, products)
    IN \A i \in DOMAIN items :
         (Survives(items[i], products)
            /\ products[items[i].productId].inventory.quantity # None) =>
           LET M == RecomputedMax(items, i, products)
               records == {a \in r.adjustedItems : a.id = i}
           IN IF items[i].quantity > M
              THEN IF M = 0
                   THEN /\ i \notin DOMAIN r.items
                        /\ \E x \in r.removedItems : x.id = i
                   ELSE /\ i \in DOMAIN r.items
                        /\ r.items[i].quantity = M
                        /\ records = {[id |-> i, from |-> items[i].quantity, to |-> M]}
              ELSE /\ i \in DOMAIN r.items
                   /\ r.items[i].quantity = items[i].quantity
                   /\ records = {}

\* C6 witness: a validateCart call has just clamped one line (an adjusted
\* record with 0 < to < from, the line now at `to`) and dropped another for
\* want of stock.
C6_Witness ==
  /\ lastCall.op = "validateCart"
  /\ \E a \in adjustedItems :
       /\ a.to >= 1 /\ a.to < a.from
       /\ a.id \in DOMAIN items /\ items[a.id].quantity = a.to
  /\ \E x \in removedItems : x.at = "noStock"

\* C7: after validateCart the cart holds no line whose product is missing from
\* the snapshot or unavailable, or whose variant is not in the product's
\* variant list; each such line is dropped and recorded as removed.
C7_StaleLinesRemoved ==
  \A products \in ShelfSnapshots :
    LET r == validateCart(items, products)
    IN /\ \A i \in DOMAIN r.items : Survives(r.items[i], products)
       /\ \A i \in DOMAIN items :
            ~Survives(items[i], products) =>
              /\ i \notin DOMAIN r.items
              /\ \E x \in r.removedItems : x.id = i

\* C7 witness: a validateCart call has just dropped one line because its
\* product was missing or unavailable or its variant gone, and kept another.
C7_Witness ==
  /\ lastCall.op = "validateCart"
  /\ \E x \in removedItems : x.at = "priceMissing" /\ x.id \notin DOMAIN items
  /\ items # EmptyCart

\* C8: for every checkout that is accepted (a checkout session is created from
\* the cart), the base units ordered for a product, summed over its variants,
\* do not exceed the product's stock at the vendor at that moment.  (SpecShop;
\* stated as the claim has it, the code violates it.)
C8_NoOverselling ==
  accepted.created =>
    \A p \in Products :
      accepted.stock[p] # None => accepted.ordered[p] <= accepted.stock[p][1]

\* Base units of product p bought by the line items the handler decremented.
DecrementedUnits(p) ==
  SumOver([v \in DOMAIN request.lineItems |-> request.lineItems[v] * PriceBaseUnits(v)],
          {v \in DOMAIN request.lineItems \ request.failing : PriceProduct(v) = p})

\* The example of C9: 2 packages of 8oz at 2 base units take the stock from 50
\* to 46.
C9_Example ==
  /\ PriceBaseUnits("p1_8oz") = 2
  /\ decrementInventory(Some(50), "p1_8oz", 2) = Some(46)
  /\ DecrementEach([p \in Products |-> Some(50)], [v \in {"p1_8oz"} |-> 2],
                   {"p1_8oz"}, {}) = [p \in Products |-> Some(46)]

C10_ResponseStatus ==
  response.status # 0 =>
    /\ request.signature = "missing" => response.status = 400
    /\ (request.signature = "invalid" /\ webhookSecret) => response.status = 400
    /\ response.status = 500 => ~webhookSecret
    /\ (request.signature = "valid" /\ webhookSecret) => response.status = 200

\* C11: for every correctly signed product created/updated/deleted or price
\* created/updated event, the endpoint answers 200 whatever vendor or CMS call
\* fails while the event is handled.  (SpecHook)
C11_CatalogEventAcknowledged ==
  (/\ request.signature = "valid"
   /\ webhookSecret
   /\ request.type \in CatalogEvents) => response.status = 200

\* ... and the case happens: a product.updated event whose CMS call fails is
\* answered 200
C11_Witness ==
  /\ request.signature = "valid" /\ webhookSecret
  /\ request.type = "product.updated"
  /\ request.cmsFails /\ ~request.retrieveFails
  /\ response.status = 200
  /\ cms = response.cmsBefore

\* C12, as stated: a request whose signature is missing or invalid is answered
\* with a 4xx status and causes no inventory decrement, no CMS write, no vendor
\* metadata write and no e-mail.  (SpecHook; an invalid signature received
\* while the webhook secret is unconfigured is answered 500.)
C12_RejectedWith4xx ==
  (response.status # 0 /\ request.signature \in {"missing", "invalid"}) =>
    /\ response.status >= 400 /\ response.status <= 499
    /\ stock = response.before
    /\ cms = response.cmsBefore
    /\ response.emails = 0

\* C12, amended: such a request is never processed (no inventory decrement, no
\* CMS write, no vendor metadata write, no e-mail); it is answered 400 when the
\* signature is missing or the webhook secret is configured, and 500 when the
\* signature is present and the secret is unconfigured.  (SpecHook)
C12_RejectedUnprocessed ==
  (response.status # 0 /\ request.signature \in {"missing", "invalid"}) =>
    /\ response.status =
         IF request.signature = "missing" \/ webhookSecret THEN 400 ELSE 500
    /\ stock = response.before
    /\ cms = response.cmsBefore
    /\ response.emails = 0

\* ... and the case happens: a paid checkout of both variants with an invalid
\* signature, while stock is tracked, is answered 400 and decrements nothing
C12_Witness ==
  /\ request.signature = "invalid" /\ webhookSecret
  /\ request.type = "checkout.session.completed"
  /\ DOMAIN request.lineItems = Shelf
  /\ response.status = 400
  /\ response.before["p1"] = Some(MaxPool)
  /\ stock = response.before
  /\ response.emails = 0

\* The vendor-owned content of a record equals the vendor's data.
VendorOwned(record, v) ==
  /\ record.name = v.name
  /\ record.price = v.amount \div 100
  /\ record.stripePriceId = DefaultPriceOf(record.stripeProductId)

\* Exactly one record of the product, with the vendor's content
OneRecordOf(docs, v) ==
  /\ Cardinality(ExistingProducts(docs, "p1")) = 1
  /\ \A d \in ExistingProducts(docs, "p1") : VendorOwned(docs[d], v)

\* C13: running the Sync Handler twice with identical vendor data, as a product
\* handler or as the price handler hands it over, results in exactly one CMS
\* record of the product, whose vendor-owned content (name, price, variant
\* data) equals the vendor data after each run.  (SpecRace; stated for a
\* product that has a default price, and the code violates it.)
C13_SyncTwice ==
  vendor.hasDefaultPrice =>
    \A expand \in BOOLEAN :
      LET product == StripeProduct("p1", vendor, expand)
          once == syncStripeProductToSanity(cms, product).cms
          twice == syncStripeProductToSanity(once, product).cms
      IN OneRecordOf(once, vendor) /\ OneRecordOf(twice, vendor)

C15_Converged ==
  (pending = {} /\ \A h \in Handlers : handlers[h].pc = "idle") =>
    /\ ExistingProducts(cms, "p1") # {} <=> vendor.active
    /\ \A d \in ExistingProducts(cms, "p1") : VendorOwned(cms[d], vendor)

\* C16: a sync onto an existing record leaves its CMS-only fields (description
\* body, featured flag) as they were.  (SpecSync)
C16_CmsOnlyFieldsKept ==
  (lastStep.call = "sync" /\ lastStep.before # None) =>
    CmsOnly(cms, "p1") = lastStep.before

\* ... and the case happens: a record an editor described and featured is
\* patched with the product's new name
C16_Witness ==
  /\ lastStep.call = "sync"
  /\ lastStep.before = Some(<<Some("D"), TRUE>>)
  /\ vendor.name = "Y"
  /\ \A d \in ExistingProducts(cms, "p1") : cms[d].name = "Y"
  /\ CmsOnly(cms, "p1") = Some(<<Some("D"), TRUE>>)

MergedWithRecord ==
  {i \in 1..Len(merged.products) :
     SanityProductOf(catalog.sanity, catalog.vendor[i].id) # None}

\* C18's example: vendor name "X", CMS name "Y" and description "D"
C18_Example ==
  \A i \in Inventories, over \in {"stripe", "square"} :
    LET vendorProducts ==
          <<[id |-> "p1", name |-> "X", priceId |-> "p1_4oz", prices |-> Shelf,
             price |-> 5, inventory |-> i]>>
        sanityProducts ==
          <<[_id |-> "stripe-product-p1", stripeProductId |-> "p1",
             stripePriceId |-> "p1_4oz", prices |-> Shelf, name |-> "Y",
             price |-> 5, description |-> Some("D"), isFeatured |-> FALSE]>>
        entry == IF over = "stripe"
                 THEN getMergedProducts(vendorProducts, sanityProducts)[1]
                 ELSE getMergedProductsSquare(vendorProducts, sanityProducts)[1]
    IN entry.name = "Y" /\ entry.description = Some("D") /\ entry.inventory = i

\* C18: the merged entry of a vendor product that has a CMS record takes its
\* name and description from the record and its inventory (quantity and
\* availability) from the vendor's live data.  (SpecMerge)
C18_MergedFields ==
  /\ C18_Example
  /\ merged.over # "none" =>
       \A i \in MergedWithRecord :
         LET found == SanityProductOf(catalog.sanity, catalog.vendor[i].id)[1]
         IN /\ merged.products[i].name = found.name
            /\ merged.products[i].description = found.description
            /\ merged.products[i].inventory = catalog.vendor[i].inventory

\* ... and the case happens: the vendor's "X" with MaxPool units in stock is
\* merged with the record "Y" described "D"
C18_Witness ==
  /\ merged.over = "stripe"
  /\ MergedWithRecord = {1}
  /\ catalog.vendor[1].name = "X"
  /\ catalog.sanity[1].name = "Y" /\ catalog.sanity[1].description = Some("D")
  /\ catalog.vendor[1].inventory = [quantity |-> Some(MaxPool), available |-> TRUE]
  /\ merged.products[1].name = "Y"
  /\ merged.products[1].description = Some("D")
  /\ merged.products[1].inventory.quantity = Some(MaxPool)

\* C19: the merged entry's variant list is the vendor's live variant list, also
\* when the list cached in the CMS record differs.  (SpecMerge; stated as the
\* claim has it, the code violates it.)
C19_LiveVariants ==
  merged.over = "square" =>
    \A i \in MergedWithRecord :
      merged.products[i].prices = catalog.vendor[i].prices

\* C20: on every load of a page that mounts the Cart Validator while a
\* non-empty cart is saved in localStorage, validateCart is eventually invoked
\* on the restored cart with the page's fresh snapshot, a full page load
\* included.  (SpecLoadFair; stated as the claim has it, the code violates it.)
C20_ValidatedOnLoad ==
  (mount.phase = "mounted" /\ storage.items # stringify(EmptyCart)) ~> mount.validated

\* After the load, the cart saved in localStorage is the in-memory one, and
\* parsing it gives the in-memory one; before the load the in-memory cart is
\* the initial empty one.
SavedCartIsCart ==
  /\ (mount.isInitialized /\ mount.phase = "ready") =>
        /\ storage.items = stringify(items)
        /\ parse(storage.items) = items
  /\ (~mount.isInitialized /\ mount.phase \in {"mounted", "loading"}) =>
        items = EmptyCart

\* C21: once CartProvider has finished its initial load, after every mutation
\* (addItem, updateQuantity, removeItem, clearCart, validateCart) the cart saved
\* in localStorage is the in-memory one; localStorage is not written before
\* the load (the initial empty state never replaces a saved cart); so a
\* reload restores the last cart.  (SpecLoad)
C21_SavedCartIsCart ==
  /\ []SavedCartIsCart
  /\ [][~mount'.isInitialized => storage' = storage]_vars

\* ... and the case happens: a cart of two lines was saved and a reload has
\* restored it
C21_Witness ==
  /\ mount.phase = "ready" /\ mount.isInitialized
  /\ lastCall = NoCall
  /\ DOMAIN items = Shelf
  /\ storage.items = stringify(items)

\* C22: after clearCart() the cart has no line items and no per-product
\* inventory total remains recorded, in memory or in localStorage.  (SpecLoad;
\* stated as the claim has it, the code violates it.)
C22_ClearCartEmptiesAll ==
  lastCall.op = "clearCart" =>
    /\ items = EmptyCart
    /\ storage.items = stringify(EmptyCart)
    /\ DOMAIN productInventory = {}
    /\ DOMAIN storage.inventory = {}

\* C23: a product whose stock metadata has been removed is reported as
\* available with no quantity limit, and it stays without stock metadata after
\* its product webhooks have been processed.  (SpecHook; stated as the claim
\* has it, the code violates it.)
C23_UnlimitedWithoutStock ==
  /\ stock["p1"] = None =>
       /\ getStripeProducts(stock)["p1"].inventory.available
       /\ getStripeProducts(stock)["p1"].inventory.quantity = None
  /\ (/\ response.status = 200
      /\ request.type \in ProductUpsertEvents
      /\ response.before["p1"] = None) => stock["p1"] = None

\* ---------------------------- SpecPrice: one price, its base-unit multiplier
\* The price is edited in the vendor's dashboard: its nickname and its
\* base_units metadata are set, or removed.  The vendor sends price.updated.
VendorEditsPrice ==
  \E nickname \in {None} \cup {Some(n) : n \in Nicknames},
     base_units \in {None} \cup {Some(m) : m \in MetadataValues} :
    /\ priceEvents < MaxQty
    /\ price' = [nickname |-> nickname, base_units |-> base_units]
    /\ priceStep' = [op |-> "edit", wrote |-> FALSE, before |-> price.base_units]
    /\ priceEvents' = priceEvents + 1
    /\ UNCHANGED <<cartVars, shopVars, loadVars, stock, webhookSecret, request,
                   response, vendor, cms, syncVars, sanityBaseUnits, orderVars,
                   batch>>

\* handlePriceCreatedOrUpdated on a price event: ensurePriceMetadata, then the
\* product is retrieved and synced, all in one try/catch.  A write of
\* ensurePriceMetadata makes the vendor send price.updated again.
HandlePriceEvent ==
  \E retrieveFails \in BOOLEAN :
    /\ priceEvents > 0
    /\ LET r == ensurePriceMetadata(price)
       IN IF retrieveFails
          THEN /\ priceStep' = [op |-> "failed", wrote |-> FALSE,
                                before |-> price.base_units]
               /\ priceEvents' = priceEvents - 1
               /\ UNCHANGED <<price, cms>>
          ELSE /\ price' = r.price
               /\ priceStep' = [op |-> "repair", wrote |-> r.wrote,
                                before |-> price.base_units]
               /\ priceEvents' = IF r.wrote THEN priceEvents ELSE priceEvents - 1
               /\ cms' = handlePriceCreatedOrUpdated(stock, cms, vendor,
                            [retrieveFails |-> FALSE, cmsFails |-> FALSE]).cms
    /\ UNCHANGED <<cartVars, shopVars, loadVars, stock, webhookSecret, request,
                   response, vendor, syncVars, sanityBaseUnits, orderVars, batch>>

\* syncSquareProductToSanity: the variation's baseUnits is stored in the CMS
\* record's prices.
SquareSync ==
  /\ sanityBaseUnits' = Some(extractBaseUnitsOfSync(price.base_units, price.nickname))
  /\ priceStep' = [op |-> "sync", wrote |-> FALSE, before |-> price.base_units]
  /\ UNCHANGED <<cartVars, shopVars, loadVars, stock, webhookSecret, request,
                 response, vendor, cms, syncVars, price, priceEvents, orderVars,
                 batch>>

InitPrice ==
  /\ InitCart /\ page = NoPage /\ accepted = NoCheckout /\ InitLoad /\ InitHook
  /\ stock = [p \in Products |-> Some(MaxPool)]
  /\ price \in [nickname : {None} \cup {Some(n) : n \in Nicknames},
                base_units : {None} \cup {Some(m) : m \in MetadataValues}]
  /\ priceStep = NoPriceStep /\ sanityBaseUnits = None
  /\ priceEvents = 1
  /\ orders = [o \in Orders |-> NoOrder]
  /\ workers = [h \in Handlers |-> NoWorker]
  /\ openingStock = 0
  /\ batch = NoBatch

NextPrice == VendorEditsPrice \/ HandlePriceEvent \/ SquareSync

SpecPrice == InitPrice /\ [][NextPrice]_vars

\* C24: the multiplier the Sync Handler stores in the CMS record is the one the
\* vendor catalog read reports for the same variation: the explicit base_units
\* when present and valid, else the one inferred from the nickname.
\* (SpecPrice; stated as the claim has it, the code violates it.)
C24_SameMultiplierEverywhere ==
  priceStep.op = "sync" =>
    sanityBaseUnits = Some(extractBaseUnits(price.base_units, price.nickname))

\* C25: without explicit base_units, the multiplier is inferred from the
\* nickname: "8oz" gives 2, "1 lb" gives 4, the unrecognised "Party Pack" gives
\* 1; both in what the catalog read reports and in what the repair writes.
C25_InferredFromNickname ==
  LET Inferred(n) ==
        CASE n = Some(<<"8", "o", "z">>) -> 2
          [] n = Some(<<"1", " ", "l", "b">>) -> 4
          [] n = Some(<<"P", "a", "r", "t", "y", " ", "P", "a", "c", "k">>) -> 1
          [] OTHER -> 0
  IN Inferred(price.nickname) # 0 =>
       /\ price.base_units = None =>
            extractBaseUnits(price.base_units, price.nickname) = Inferred(price.nickname)
       /\ (priceStep.op = "repair" /\ priceStep.before = None) =>
            price.base_units = Some(toString(Inferred(price.nickname)))

\* C25's case: the repair ran on a "1 lb" price without base_units
C25_Witness ==
  /\ priceStep.op = "repair" /\ priceStep.before = None /\ priceStep.wrote
  /\ price.nickname = Some(<<"1", " ", "l", "b">>)
  /\ price.base_units = Some(<<"4">>)

\* C26: after a repair run the price's base_units at the vendor is valid: the
\* value it had when that was valid, else the inferred one; and the next run on
\* the price, the one the repair's own price.updated triggers included, writes
\* nothing to the vendor.
C26_RepairedOnce ==
  /\ [](priceStep.op = "repair" =>
         /\ isValidBaseUnits(price.base_units)
         /\ price.base_units =
              IF isValidBaseUnits(priceStep.before) THEN priceStep.before
              ELSE Some(toString(InferBaseUnits(price.nickname)))
         /\ priceStep.wrote => priceEvents > 0)
  /\ [][(priceStep.op = "repair" /\ priceStep'.op = "repair")
          => (~priceStep'.wrote /\ price' = price)]_vars

\* C26's case: a price without valid base_units was repaired, and the run the
\* repair's event triggered has been made
C26_Witness ==
  /\ priceStep.op = "repair" /\ ~priceStep.wrote
  /\ priceStep.before = price.base_units
  /\ price = [nickname |-> Some(<<"8", "o", "z">>), base_units |-> Some(<<"2">>)]
  /\ priceEvents = 0

\* ------------------------------------- SpecBatch: the loops over many items
BatchOps ==
  {"syncAllProducts", "handleCatalogUpdated", "handleCheckoutSessionCompleted",
   "removeDuplicateProducts", "fixAllProductDescriptionKeys"}

\* The loops whose body is a try/catch: the sync-all script, the
\* catalog-updated resync and the checkout's decrements.  The loops of
\* removeDuplicateProducts and fixAllProductDescriptionKeys await their CMS
\* writes without one.
CatchesPerItem(op) ==
  op \in {"syncAllProducts", "handleCatalogUpdated", "handleCheckoutSessionCompleted"}

BatchItems == 1..MaxPool

\* A batch operation starts on its items, in order; the calls for the items
\* in `failing` will throw.
StartBatch ==
  \E op \in BatchOps, n \in BatchItems, failing \in SUBSET BatchItems :
    /\ batch.todo = <<>> \/ batch.threw
    /\ failing \subseteq 1..n
    /\ batch' = [op |-> op, todo |-> [i \in 1..n |-> i], failing |-> failing,
                 succeeded |-> {}, failed |-> {}, threw |-> FALSE]
    /\ UNCHANGED <<cartVars, shopVars, loadVars, stock, webhookSecret, request,
                   response, vendor, cms, syncVars, priceVars, orderVars>>

\* One turn of the loop, on the next item.  A throw inside a try/catch is
\* logged and the loop goes on; a throw outside one leaves the loop and the
\* function.
ProcessItem ==
  /\ batch.todo # <<>> /\ ~batch.threw
  /\ LET item == Head(batch.todo)
     IN batch' =
          IF item \notin batch.failing
          THEN [batch EXCEPT !.todo = Tail(@), !.succeeded = @ \cup {item}]
          ELSE IF CatchesPerItem(batch.op)
          THEN [batch EXCEPT !.todo = Tail(@), !.failed = @ \cup {item}]
          ELSE [batch EXCEPT !.todo = Tail(@), !.failed = @ \cup {item},
                             !.threw = TRUE]
  /\ UNCHANGED <<cartVars, shopVars, loadVars, stock, webhookSecret, request,
                 response, vendor, cms, syncVars, priceVars, orderVars>>

InitBatch == InitCart /\ InitShop /\ InitHook /\ stock = [p \in Products |-> None]

NextBatch == StartBatch \/ ProcessItem

SpecBatch == InitBatch /\ [][NextBatch]_vars

\* C27: when a batch operation has ended, every item whose own call does not
\* fail has been processed, whichever other items failed.  (SpecBatch; stated
\* as the claim has it, the code violates it.)
C27_BatchGoesOn ==
  (batch.op # "none" /\ (batch.todo = <<>> \/ batch.threw)) =>
    \A item \in batch.succeeded \cup batch.failed
                 \cup {batch.todo[i] : i \in DOMAIN batch.todo} :
      item \notin batch.failing => item \in batch.succeeded

\* --------------------------- SpecNotify: the toasts of a cart validation
\* The toasts validateCart shows after its setItems: one toast.error naming
\* all the removed lines, and a toast.warning for each adjusted line.
Notifications(removed, adjusted) ==
  [error |-> IF removed # {} THEN 1 ELSE 0,
   warning |-> Cardinality({a.id : a \in adjusted})]

\* The totals a page fetched after a restock may carry
RestockedTotals == {Some(n) : n \in 0..(2 * MaxPool)}

\* validateCart(products) with a page's products after a restock
ValidateCartRestocked ==
  \E products \in Snapshots(Shelf, RestockedTotals) :
    /\ ValidateCartCall(products)
    /\ UNCHANGED <<stock, shopVars, hookVars, loadVars>>

NextNotify == AddItem \/ UpdateQuantity \/ RemoveItem \/ ValidateCartRestocked

SpecNotify == Init /\ [][NextNotify]_vars

\* C28: a run of validateCart shows at most one notification for all the lines
\* it removed and at most one for all the lines it adjusted.  (SpecNotify;
\* stated as the claim has it, the code violates it.)
C28_OneNotificationEach ==
  lastCall.op = "validateCart" =>
    /\ Notifications(removedItems, adjustedItems).error <= 1
    /\ Notifications(removedItems, adjustedItems).warning <= 1

\* ------------------ SpecOrders: completed checkouts, handled concurrently
\* The vendor sends checkout.session.completed for a paid session; it sends
\* the event again when it saw no answer in time.
VendorSendsCompleted ==
  \E o \in Orders :
    /\ orders[o].sent < MaxQty
    /\ orders' = [orders EXCEPT ![o].sent = @ + 1, ![o].inFlight = @ + 1]
    /\ UNCHANGED <<cartVars, shopVars, loadVars, stock, webhookSecret, request,
                   response, vendor, cms, syncVars, priceVars, workers,
                   openingStock, batch>>

\* An invocation of the endpoint receives the event and retrieves the session
\* with its line item.
ReceiveCompleted(h) ==
  \E o \in Orders :
    /\ workers[h].pc = "idle"
    /\ orders[o].inFlight > 0
    /\ orders' = [orders EXCEPT ![o].inFlight = @ - 1]
    /\ workers' = [workers EXCEPT ![h] = [pc |-> "retrieve", order |-> o,
                                          newQuantity |-> 0]]
    /\ UNCHANGED <<cartVars, shopVars, loadVars, stock, webhookSecret, request,
                   response, vendor, cms, syncVars, priceVars, openingStock,
                   batch>>

\* decrementInventory up to its write: the product and the price are
\* retrieved and the new quantity is computed from the stock just read.
RetrieveStock(h) ==
  /\ workers[h].pc = "retrieve"
  /\ LET order == orders[workers[h].order]
     IN workers' = [workers EXCEPT
          ![h].pc = "update",
          ![h].newQuantity =
             decrementInventory(stock["p1"], order.priceId, order.quantity)[1]]
  /\ UNCHANGED <<cartVars, shopVars, loadVars, stock, webhookSecret, request,
                 response, vendor, cms, syncVars, priceVars, orders,
                 openingStock, batch>>

\* updateStripeInventory: the computed quantity is written to the stock
\* metadata, and the invocation ends.
UpdateStock(h) ==
  /\ workers[h].pc = "update"
  /\ stock' = [stock EXCEPT !["p1"] = Some(workers[h].newQuantity)]
  /\ orders' = [orders EXCEPT ![workers[h].order].decrements = @ + 1]
  /\ workers' = [workers EXCEPT ![h] = NoWorker]
  /\ UNCHANGED <<cartVars, shopVars, loadVars, webhookSecret, request, response,
                 vendor, cms, syncVars, priceVars, openingStock, batch>>

InitOrders ==
  /\ InitCart /\ page = NoPage /\ accepted = NoCheckout /\ InitLoad /\ InitHook
  /\ price = NoPrice /\ priceStep = NoPriceStep /\ sanityBaseUnits = None
  /\ priceEvents = 0 /\ batch = NoBatch
  /\ openingStock \in 0..MaxPool
  /\ stock = [p \in Products |-> Some(openingStock)]
  /\ orders \in [Orders -> [priceId : Shelf, quantity : Quantities, sent : {0},
                            inFlight : {0}, decrements : {0}]]
  /\ workers = [h \in Handlers |-> NoWorker]

NextOrders ==
  \/ VendorSendsCompleted
  \/ \E h \in Handlers : ReceiveCompleted(h) \/ RetrieveStock(h) \/ UpdateStock(h)

SpecOrders == InitOrders /\ [][NextOrders]_vars

\* C29: the stock is decremented once for each completed checkout, however
\* often its completion reaches the endpoint.  (SpecOrders; stated as the
\* claim has it, the code violates it.)
C29_DecrementedOnce ==
  \A o \in Orders : orders[o].decrements <= 1

\* The base units the checkouts bought
Bought == SumOver([o \in Orders |-> orders[o].quantity * PriceBaseUnits(orders[o].priceId)], Orders)

\* C30: when the completions of the checkouts, each delivered once, have been
\* handled, in whatever interleaving, the stock is max(0, the initial stock
\* minus the base units bought): no decrement is lost.  (SpecOrders; stated
\* as the claim has it, the code violates it.)
C30_NoLostDecrement ==
  (/\ \A h \in Handlers : workers[h].pc = "idle"
   /\ \A o \in Orders : /\ orders[o].sent = 1 /\ orders[o].inFlight = 0
                        /\ orders[o].decrements = 1)
  => stock["p1"] = Some(Max(0, openingStock - Bought))

====
